---- MODULE Spec2Model ----
(***************************************************************************)
(* The allocation loop of regalloc2's backtracking allocator               *)
(* (src/src/ion/process.rs).  ProgPoints are their integer index           *)
(* (2 * inst + pos, Before = 0, After = 1).  Arena handles are 1-based     *)
(* positions in the arenas; 0 is the invalid handle.                       *)
(***************************************************************************)
EXTENDS Integers, Sequences, FiniteSets, TLC

\* ------------------------------------------------------------------ bounds
NumInsts == 3
NumPRegs == 2
\* The bundle arena is not grown beyond this many bundles.
MaxBundles == 8

\* ------------------------------------------------------- program constants
\* `if skips >= 16` in the merge sweep
SkipLimit == 16
\* `debug_assert!(attempts < 100 * self.func.num_insts())`
AttemptFactor == 100

BUNDLE_MAX_SPILL_WEIGHT == 536870911
MINIMAL_FIXED_BUNDLE_SPILL_WEIGHT == BUNDLE_MAX_SPILL_WEIGHT
MINIMAL_BUNDLE_SPILL_WEIGHT == BUNDLE_MAX_SPILL_WEIGHT - 1
BUNDLE_MAX_NORMAL_SPILL_WEIGHT == BUNDLE_MAX_SPILL_WEIGHT - 2

\* Option::None for max_allowable_cost and the cost trackers
None == -1
\* LiveRangeIndex::invalid(), LiveBundleIndex::invalid(), PReg::invalid()
Invalid == 0

\* ---------------------------------------------------------------- helpers
Max(a, b) == IF a >= b THEN a ELSE b
Min(a, b) == IF a <= b THEN a ELSE b
Last(s) == s[Len(s)]
Front(s) == SubSeq(s, 1, Len(s) - 1)
\* F applied to the value of v, v evaluated once.
Let(v, F(_)) == CHOOSE r \in {F(x) : x \in {v}} : TRUE

SeqHas(s, x) == \E i \in 1..Len(s) : s[i] = x

RECURSIVE SumSeq(_)
SumSeq(s) == IF s = <<>> THEN 0 ELSE Head(s) + SumSeq(Tail(s))

\* --------------------------------------------------------------- ProgPoint
inst(p) == p \div 2
pos(p) == p % 2
before(i) == 2 * i
after(i) == 2 * i + 1
next(p) == p + 1
prev(p) == p - 1
Before == 0
After == 1

Points == 0..(2 * NumInsts - 1)
PRegs == 1..NumPRegs

\* ------------------------------------------------------------ LiveRangeKey
\* Ord for LiveRangeKey: overlapping keys compare Equal.
\* (A comparator by start point alone would let overlapping keys coexist.)
KeyLess_by_start(a, b) == a.from < b.from
KeyLess(a, b) == a.to <= b.from
KeyGreater(a, b) == ~KeyLess(a, b) /\ a.from >= b.to
KeyEqual(a, b) == ~KeyLess(a, b) /\ ~KeyGreater(a, b)
PointKey(p) == [from |-> p, to |-> p]

\* A PReg's `allocations.btree` is the sequence of its entries
\* [from, to, lr] in key order.
\* btree.range(key..): position of the first entry that is not Less than key.
btree_range(bt, key) ==
    CHOOSE i \in 1..(Len(bt) + 1) :
        /\ \A j \in 1..(i - 1) : KeyLess(bt[j], key)
        /\ (i <= Len(bt) => ~KeyLess(bt[i], key))

\* btree.insert(key, lr): an entry that compares Equal keeps its key and
\* takes the new value; otherwise the entry goes in at its place in order.
btree_insert(bt, key, lr) ==
    Let(btree_range(bt, key), LAMBDA i :
       IF i <= Len(bt) /\ KeyEqual(bt[i], key)
       THEN [bt EXCEPT ![i].lr = lr]
       ELSE SubSeq(bt, 1, i - 1) \o <<[from |-> key.from, to |-> key.to, lr |-> lr]>>
              \o SubSeq(bt, i, Len(bt)))

\* btree.remove(key): drops the entry that compares Equal, if any.
btree_remove(bt, key) ==
    Let(btree_range(bt, key), LAMBDA i :
       IF i <= Len(bt) /\ KeyEqual(bt[i], key)
       THEN SubSeq(bt, 1, i - 1) \o SubSeq(bt, i + 1, Len(bt))
       ELSE bt)

\* ------------------------------------------------------------------ state
VARIABLES
    ranges,            \* LiveRange arena: [from, to, vreg, bundle, uses, uses_spill_weight, starts_at_def]
    bundles,           \* LiveBundle arena: [ranges, spillset, allocation, prio, spill_weight, minimal, fixed, stack]
    spillsets,         \* [reg_hint, required, spill_bundle]
    vregs,             \* per VReg: the (lazy) list of its range entries
    pregs,             \* per PReg: allocations.btree
    allocation_queue,  \* entries [bundle, prio, reg_hint] in insertion order
    spilled_bundles,
    approx_loop_depth, \* cfginfo.approx_loop_depth, per block
    debug_assertions,  \* FALSE once a failed debug_assert! was passed over (a release build)
    pc,                \* where process_bundles stands
    cur,               \* locals of the running process_bundle
    evict_list,        \* bundles of the chosen conflict set still to evict
    last,              \* the last operation and what it returned
    reftype_vregs,     \* func.reftype_vregs(), in order
    safepoints_per_vreg, \* per VReg: the set of its safepoint instructions
    range_allocation,  \* per range: what get_alloc_for_range returns
    safepoint_slots    \* pairs <<ProgPoint, slot>>

stackmap_vars == <<reftype_vregs, safepoints_per_vreg, range_allocation, safepoint_slots>>

vars == <<ranges, bundles, spillsets, vregs, pregs, allocation_queue,
          spilled_bundles, approx_loop_depth, debug_assertions, pc, cur, evict_list,
          last, stackmap_vars>>

\* A function without reference-typed VRegs, before compute_stackmaps.
NoStackmaps ==
    /\ reftype_vregs = <<>>
    /\ safepoints_per_vreg = <<>>
    /\ range_allocation = <<>>
    /\ safepoint_slots = <<>>

\* The arenas as one value, for the operators that thread them.
Env == [ranges |-> ranges, bundles |-> bundles, spillsets |-> spillsets,
        vregs |-> vregs, pregs |-> pregs, allocation_queue |-> allocation_queue,
        spilled_bundles |-> spilled_bundles, approx_loop_depth |-> approx_loop_depth,
        debug_assertions |-> debug_assertions]

\* ------------------------------------------------------------- environment
\* cfginfo: block 1 holds instruction 0, block 2 the instructions after it.
NumBlocks == 2
insn_block(i) == IF i = 0 THEN 1 ELSE 2
block_entry(b) == IF b = 1 THEN before(0) ELSE before(1)

\* MachineEnv: one register class, every PReg preferred, none a stack slot.
preferred_regs_by_class == [i \in 1..NumPRegs |-> i]
non_preferred_regs_by_class == <<>>
is_stack(p) == FALSE

\* Operand constraints and requirements are records [kind, preg].
Constraint(k) == [kind |-> k, preg |-> Invalid]
FixedRegC(p) == [kind |-> "FixedReg", preg |-> p]
Req(k) == [kind |-> k, preg |-> Invalid]

\* SpillWeight is kept in a Use as the top 16 bits of an f32: 9 significant bits.
RECURSIVE Pow2Below(_, _)
Pow2Below(w, p) == IF 2 * p > w THEN p ELSE Pow2Below(w, 2 * p)
weight_bits(w) ==
    IF w < 512 THEN w
    ELSE LET unit == Pow2Below(w, 1) \div 256 IN w - (w % unit)

RECURSIVE Pow4(_)
Pow4(n) == IF n = 0 THEN 1 ELSE 4 * Pow4(n - 1)
spill_weight_from_constraint(constraint, loop_depth, is_def) ==
    1000 * Pow4(Min(10, loop_depth))
      + (IF is_def THEN 2000 ELSE 0)
      + (CASE constraint.kind = "Any" -> 1000
           [] constraint.kind \in {"Reg", "FixedReg"} -> 2000
           [] OTHER -> 0)

\* ------------------------------------------------------------ requirements
requirement_from_operand(c) ==
    CASE c.kind = "FixedReg" ->
            [kind |-> IF is_stack(c.preg) THEN "FixedStack" ELSE "FixedReg", preg |-> c.preg]
      [] c.kind = "Reg" -> Req("Register")
      [] c.kind = "Stack" -> Req("Stack")
      [] OTHER -> Req("Any")

\* Requirement::merge; Req("Conflict") stands for Err(RequirementConflict).
merge(a, b) ==
    CASE b.kind = "Any" -> a
      [] a.kind = "Any" -> b
      [] a.kind = "Register" /\ b.kind = "Register" -> a
      [] a.kind = "Stack" /\ b.kind = "Stack" -> a
      [] a.kind = "Register" /\ b.kind = "FixedReg" -> b
      [] a.kind = "FixedReg" /\ b.kind = "Register" -> a
      [] a.kind = "Stack" /\ b.kind = "FixedStack" -> b
      [] a.kind = "FixedStack" /\ b.kind = "Stack" -> a
      [] a.kind = "FixedReg" /\ b.kind = "FixedReg" /\ a.preg = b.preg -> a
      [] a.kind = "FixedStack" /\ b.kind = "FixedStack" /\ a.preg = b.preg -> a
      [] OTHER -> Req("Conflict")

\* All uses of a bundle, range by range.
RECURSIVE bundle_uses(_, _, _)
bundle_uses(e, rs, i) ==
    IF i > Len(rs) THEN <<>>
    ELSE e.ranges[rs[i].index].uses \o bundle_uses(e, rs, i + 1)

RECURSIVE merge_uses(_, _, _)
merge_uses(us, i, req) ==
    IF i > Len(us) THEN [ok |-> TRUE, req |-> req, point |-> 0]
    ELSE LET r == merge(req, requirement_from_operand(us[i].constraint))
         IN IF r.kind = "Conflict"
            THEN [ok |-> FALSE, req |-> r, point |-> us[i].pos]
            ELSE merge_uses(us, i + 1, r)

\* Ok(req), or Err(RequirementConflictAt(point)) at the first use that
\* cannot be merged.
compute_requirement(e, bundle) ==
    merge_uses(bundle_uses(e, e.bundles[bundle].ranges, 1), 1, Req("Any"))

\* ------------------------------------------------------- bundle properties
CodeRangeLen(r) == inst(r.to) - inst(r.from)

compute_bundle_prio(e, bundle) ==
    LET rs == e.bundles[bundle].ranges
    IN SumSeq([i \in 1..Len(rs) |-> CodeRangeLen(rs[i])])

bundle_spill_weight(e, bundle) == e.bundles[bundle].spill_weight
minimal_bundle(e, bundle) == e.bundles[bundle].minimal

maximum_spill_weight_in_bundle_set(e, bs) ==
    IF bs = <<>> THEN 0
    ELSE CHOOSE m \in {e.bundles[bs[i]].spill_weight : i \in 1..Len(bs)} :
            \A i \in 1..Len(bs) : e.bundles[bs[i]].spill_weight <= m

\* The bundle record with prio, spill weight and flags set: `prio` is the
\* value stored by `self.bundles[..].prio = self.compute_bundle_prio(bundle)`,
\* `read_prio` the value of `self.bundles[..].prio` the weight is divided by.
bundle_properties(e, bundle, prio, read_prio) ==
    LET b == e.bundles[bundle]
        first_range_data == e.ranges[b.ranges[1].index]
        us == first_range_data.uses
        fixed == \/ first_range_data.vreg = Invalid
                 \/ \E i \in 1..Len(us) : us[i].constraint.kind = "FixedReg"
        \* the scan stops once both flags are set
        stack == /\ first_range_data.vreg # Invalid
                 /\ \E i \in 1..Len(us) : us[i].constraint.kind = "Stack"
        bundle_start == b.ranges[1].from
        bundle_end == Last(b.ranges).to
        minimal == \/ first_range_data.vreg = Invalid
                   \/ inst(bundle_start) = inst(prev(bundle_end))
        total == SumSeq([i \in 1..Len(b.ranges) |->
                           e.ranges[b.ranges[i].index].uses_spill_weight])
        spill_weight ==
            IF minimal
            THEN IF fixed THEN MINIMAL_FIXED_BUNDLE_SPILL_WEIGHT
                 ELSE MINIMAL_BUNDLE_SPILL_WEIGHT
            ELSE IF read_prio > 0
                 THEN Min(BUNDLE_MAX_NORMAL_SPILL_WEIGHT, total \div read_prio)
                 ELSE 0
    IN [b EXCEPT !.prio = prio, !.spill_weight = spill_weight,
                 !.minimal = minimal, !.fixed = fixed, !.stack = stack]

\* (The weight divided by the prio cached before the call.)
recompute_with_cached_prio(e, bundle) ==
    bundle_properties(e, bundle, compute_bundle_prio(e, bundle), e.bundles[bundle].prio)
\* The bundle record with prio, spill weight and flags recomputed: the prio
\* is stored first and the weight divided by the stored prio.
recompute_bundle_properties(e, bundle) ==
    Let(compute_bundle_prio(e, bundle), LAMBDA prio :
        bundle_properties(e, bundle, prio, prio))

\* (A recomputation that stores whether the first use is a def.)
recompute_range_properties_assigning(e, range) ==
    LET r == e.ranges[range]
        w == SumSeq([i \in 1..Len(r.uses) |-> r.uses[i].weight])
    IN [r EXCEPT !.uses_spill_weight = w,
                 !.starts_at_def = Len(r.uses) > 0 /\ r.uses[1].kind = "Def"]

\* The range record with its spill weight recomputed; StartsAtDef is set
\* when the first use is a def, and never cleared.
recompute_range_properties(e, range) ==
    LET r == e.ranges[range]
        w == SumSeq([i \in 1..Len(r.uses) |-> r.uses[i].weight])
    IN [r EXCEPT !.uses_spill_weight = w,
                 !.starts_at_def = IF Len(r.uses) > 0 /\ r.uses[1].kind = "Def"
                                   THEN TRUE ELSE @]

\* --------------------------------------------------------- allocation queue
\* PrioQueue: pop returns the entry of highest prio, the earliest inserted
\* among equals.
queue_insert(q, bundle, prio, reg_hint) ==
    Append(q, [bundle |-> bundle, prio |-> prio, reg_hint |-> reg_hint])

queue_top(q) ==
    CHOOSE i \in 1..Len(q) :
        /\ \A j \in 1..Len(q) : q[j].prio <= q[i].prio
        /\ \A j \in 1..(i - 1) : q[j].prio < q[i].prio

queue_remove(q, i) == SubSeq(q, 1, i - 1) \o SubSeq(q, i + 1, Len(q))


\* ------------------------------------------------------------- try-allocate
\* AllocRegResult as a record; fields a variant lacks are 0 / <<>>.
Allocated(p) == [tag |-> "Allocated", bundles |-> <<>>, point |-> 0, cost |-> 0, preg |-> p]
Conflict(bs, pt) == [tag |-> "Conflict", bundles |-> bs, point |-> pt, cost |-> 0, preg |-> Invalid]
\* (A fixed reservation reported as an evictable conflict.)
ConflictWithFixed_as_Conflict(c, pt) == Conflict(<<>>, pt)
ConflictWithFixed(c, pt) ==
    [tag |-> "ConflictWithFixed", bundles |-> <<>>, point |-> pt, cost |-> c, preg |-> Invalid]
ConflictHighCost ==
    [tag |-> "ConflictHighCost", bundles |-> <<>>, point |-> 0, cost |-> 0, preg |-> Invalid]
NoConflictFound ==
    [tag |-> "NoConflict", bundles |-> <<>>, point |-> 0, cost |-> 0, preg |-> Invalid]

\* The merge sweep of the bundle's ranges `rs` against the PReg map `bt`:
\* `ri` is the bundle range at hand, `it` the position of preg_range_iter.
\* The iterator after the re-seek that follows SkipLimit skips: the first
\* entry that is not Less than the point key of the range's start.
\* (A re-seek from the end of the range would pass over its overlaps.)
reseek_past(bt, range) == btree_range(bt, PointKey(range.to))
reseek(bt, range) == btree_range(bt, PointKey(range.from))

\* `!conflict_set.contains(&conflict_bundle)`: the bundle is met for the
\* first time in this sweep.
\* (A sweep without the conflict set pushes a bundle once per entry.)
is_new_conflict_always(conflicts, conflict_bundle) == TRUE
is_new_conflict(conflicts, conflict_bundle) == ~SeqHas(conflicts, conflict_bundle)

\* `max_allowable_cost.is_some() && max_conflict_weight > max_allowable_cost.unwrap()`.
\* (A limit that is already reached by an equal weight.)
reached_high_cost_at_equal(max_conflict_weight, max_allowable_cost) ==
    max_allowable_cost # None /\ max_conflict_weight >= max_allowable_cost
reached_high_cost(max_conflict_weight, max_allowable_cost) ==
    max_allowable_cost # None /\ max_conflict_weight > max_allowable_cost

\* The point recorded at the first conflict: the later of the two starts.
\* (The start of the PReg entry alone.)
first_conflict_point_of_entry(preg_key, key) == preg_key.from
first_conflict_point(preg_key, key) == Max(preg_key.from, key.from)

RECURSIVE sweep(_, _, _, _, _, _, _, _, _, _)
sweep(e, rs, bt, max_allowable_cost, ri, it, skips, conflicts, max_conflict_weight, first_conflict) ==
    LET done == IF Len(conflicts) > 0 THEN Conflict(conflicts, first_conflict)
                ELSE NoConflictFound
    IN
    IF ri > Len(rs) THEN done
    ELSE
      LET key == [from |-> rs[ri].from, to |-> rs[ri].to] IN
      IF it <= Len(bt) /\ KeyLess(bt[it], key)
      THEN \* skip a PReg entry that lies wholly before this range
           IF skips + 1 >= SkipLimit
           THEN Let(reseek(bt, rs[ri]), LAMBDA it2 :
                    sweep(e, rs, bt, max_allowable_cost, ri, it2, 0,
                          conflicts, max_conflict_weight, first_conflict))
           ELSE Let(<<it + 1, skips + 1>>, LAMBDA n :
                    sweep(e, rs, bt, max_allowable_cost, ri, n[1], n[2],
                          conflicts, max_conflict_weight, first_conflict))
      ELSE IF it > Len(bt)
      THEN done                          \* break 'ranges
      ELSE IF KeyGreater(bt[it], key)
      THEN Let(ri + 1, LAMBDA ri2 :
               sweep(e, rs, bt, max_allowable_cost, ri2, it, 0,
                     conflicts, max_conflict_weight, first_conflict))
      ELSE \* bt[it] overlaps the range
        LET preg_key == bt[it]
            preg_range == bt[it].lr
        IN IF preg_range # Invalid
           THEN LET conflict_bundle == e.ranges[preg_range].bundle
                    fresh == is_new_conflict(conflicts, conflict_bundle)
                    conflicts2 == IF fresh THEN Append(conflicts, conflict_bundle)
                                  ELSE conflicts
                    weight2 == IF fresh
                               THEN Max(max_conflict_weight,
                                        e.bundles[conflict_bundle].spill_weight)
                               ELSE max_conflict_weight
                    first2 == IF first_conflict = None
                              THEN first_conflict_point(preg_key, key)
                              ELSE first_conflict
                IN IF fresh /\ reached_high_cost(weight2, max_allowable_cost)
                   THEN ConflictHighCost
                   ELSE Let(<<it + 1, conflicts2, weight2, first2>>, LAMBDA n :
                            sweep(e, rs, bt, max_allowable_cost, ri, n[1], 0,
                                  n[2], n[3], n[4]))
           ELSE ConflictWithFixed(max_conflict_weight, preg_key.from)

RECURSIVE insert_ranges(_, _, _)
insert_ranges(bt, rs, i) ==
    IF i > Len(rs) THEN bt
    ELSE Let(btree_insert(bt, [from |-> rs[i].from, to |-> rs[i].to], rs[i].index),
             LAMBDA bt2 : insert_ranges(bt2, rs, i + 1))

\* What try_to_allocate_bundle_to_reg returns (Allocated when the sweep
\* finds no conflict).
try_result(e, bundle, reg, max_allowable_cost) ==
    LET rs == e.bundles[bundle].ranges
        bt == e.pregs[reg]
    IN Let(btree_range(bt, PointKey(rs[1].from)), LAMBDA it :
       Let(sweep(e, rs, bt, max_allowable_cost, 1, it, 0, <<>>, 0, None), LAMBDA r :
       IF r.tag = "NoConflict" THEN Allocated(reg) ELSE r))

\* (An allocation that records the PReg before it looks for conflicts.)
try_to_allocate_claiming_first(e, bundle, reg, max_allowable_cost) ==
    IF try_result(e, bundle, reg, max_allowable_cost).tag = "Allocated"
    THEN [e EXCEPT !.bundles[bundle].allocation = reg,
                   !.pregs[reg] = insert_ranges(@, e.bundles[bundle].ranges, 1)]
    ELSE [e EXCEPT !.bundles[bundle].allocation = reg]

\* (An allocation that records the PReg and leaves its map alone.)
try_to_allocate_without_insert(e, bundle, reg, max_allowable_cost) ==
    IF try_result(e, bundle, reg, max_allowable_cost).tag = "Allocated"
    THEN [e EXCEPT !.bundles[bundle].allocation = reg]
    ELSE e

\* The arenas after try_to_allocate_bundle_to_reg: changed on Allocated only.
try_to_allocate_bundle_to_reg(e, bundle, reg, max_allowable_cost) ==
    IF try_result(e, bundle, reg, max_allowable_cost).tag = "Allocated"
    THEN [e EXCEPT !.bundles[bundle].allocation = reg,
                   !.pregs[reg] = insert_ranges(@, e.bundles[bundle].ranges, 1)]
    ELSE e

\* -------------------------------------------------------------------- evict
\* (An eviction that leaves the ranges in the map.)
remove_ranges_none(bt, rs, i) == bt
RECURSIVE remove_ranges(_, _, _)
remove_ranges(bt, rs, i) ==
    IF i > Len(rs) THEN bt
    ELSE Let(btree_remove(bt, [from |-> rs[i].from, to |-> rs[i].to]),
             LAMBDA bt2 : remove_ranges(bt2, rs, i + 1))

\* (An eviction that requeues the bundle with its allocation still set.)
evict_bundle_still_allocated(e, bundle) ==
    LET preg == e.bundles[bundle].allocation
    IN IF preg = Invalid THEN e
       ELSE [e EXCEPT !.pregs[preg] = remove_ranges(@, e.bundles[bundle].ranges, 1),
                      !.allocation_queue =
                          queue_insert(@, bundle, e.bundles[bundle].prio, Invalid)]
\* (An eviction that empties the map of the PReg.)
evict_bundle_clearing(e, bundle) ==
    LET preg == e.bundles[bundle].allocation
    IN IF preg = Invalid THEN e
       ELSE [e EXCEPT !.bundles[bundle].allocation = Invalid,
                      !.pregs[preg] = <<>>,
                      !.allocation_queue =
                          queue_insert(@, bundle, e.bundles[bundle].prio, Invalid)]
\* (An eviction that does nothing.)
evict_bundle_noop(e, bundle) == e
\* (An eviction that requeues the bundle with the PReg it leaves as hint.)
evict_bundle_hinted(e, bundle) ==
    LET preg == e.bundles[bundle].allocation
    IN IF preg = Invalid THEN e
       ELSE [e EXCEPT !.bundles[bundle].allocation = Invalid,
                      !.pregs[preg] = remove_ranges(@, e.bundles[bundle].ranges, 1),
                      !.allocation_queue =
                          queue_insert(@, bundle, e.bundles[bundle].prio, preg)]
evict_bundle(e, bundle) ==
    LET preg == e.bundles[bundle].allocation
    IN IF preg = Invalid THEN e
       ELSE [e EXCEPT !.bundles[bundle].allocation = Invalid,
                      !.pregs[preg] = remove_ranges(@, e.bundles[bundle].ranges, 1),
                      !.allocation_queue =
                          queue_insert(@, bundle, e.bundles[bundle].prio, Invalid)]


\* ------------------------------------------------------------------- arenas
\* create_liverange pushes a range with no vreg, no bundle and no uses.
NewLiveRange(from, to) ==
    [from |-> from, to |-> to, vreg |-> Invalid, bundle |-> Invalid, uses |-> <<>>,
     uses_spill_weight |-> 0, starts_at_def |-> FALSE]
create_liverange(e, from, to) == [e EXCEPT !.ranges = Append(@, NewLiveRange(from, to))]

NewBundle ==
    [ranges |-> <<>>, spillset |-> Invalid, allocation |-> Invalid, prio |-> 0,
     spill_weight |-> 0, minimal |-> FALSE, fixed |-> FALSE, stack |-> FALSE]
create_bundle(e) == [e EXCEPT !.bundles = Append(@, NewBundle)]

Entry(from, to, index) == [from |-> from, to |-> to, index |-> index]

\* The spill bundle of the bundle's spillset (Invalid when absent and not
\* created), with the arenas after creating it.
get_or_create_spill_bundle(e, bundle, create_if_absent) ==
    LET ssidx == e.bundles[bundle].spillset
        idx == e.spillsets[ssidx].spill_bundle
        fresh == Len(e.bundles) + 1
    IN IF idx # Invalid THEN [env |-> e, spill |-> idx]
       ELSE IF create_if_absent
       THEN [env |-> [create_bundle(e) EXCEPT
                         !.spillsets[ssidx].spill_bundle = fresh,
                         !.bundles[fresh].spillset = ssidx,
                         !.spilled_bundles = Append(@, fresh)],
             spill |-> fresh]
       ELSE [env |-> e, spill |-> Invalid]

\* ------------------------------------------------------- split-and-requeue
bundle_start_of(e, bundle) == e.bundles[bundle].ranges[1].from
bundle_end_of(e, bundle) == Last(e.bundles[bundle].ranges).to

\* (A split at the start that always goes before the first use.)
normalized_split_point_before_use(e, bundle, split_at) ==
    LET bundle_start == bundle_start_of(e, bundle)
        bundle_end == bundle_end_of(e, bundle)
        us == bundle_uses(e, e.bundles[bundle].ranges, 1)
    IN IF split_at = bundle_start
       THEN IF Len(us) > 0
            THEN before(inst(us[1].pos))
            ELSE before(inst(bundle_start) + 1)
       ELSE LET s1 == IF pos(split_at) = After THEN next(split_at) ELSE split_at
            IN IF s1 >= bundle_end THEN prev(prev(s1)) ELSE s1

\* (A split point that stays where it is unless it is the bundle's start.)
normalized_split_point_unaligned(e, bundle, split_at) ==
    LET bundle_start == bundle_start_of(e, bundle)
        us == bundle_uses(e, e.bundles[bundle].ranges, 1)
    IN IF split_at = bundle_start
       THEN IF Len(us) > 0
            THEN IF inst(us[1].pos) = inst(bundle_start)
                 THEN before(inst(us[1].pos) + 1)
                 ELSE before(inst(us[1].pos))
            ELSE before(inst(bundle_start) + 1)
       ELSE split_at

\* The split point after normalisation.
normalized_split_point(e, bundle, split_at) ==
    LET bundle_start == bundle_start_of(e, bundle)
        bundle_end == bundle_end_of(e, bundle)
        us == bundle_uses(e, e.bundles[bundle].ranges, 1)
    IN IF split_at = bundle_start
       THEN IF Len(us) > 0
            THEN IF inst(us[1].pos) = inst(bundle_start)
                 THEN before(inst(us[1].pos) + 1)
                 ELSE before(inst(us[1].pos))
            ELSE before(inst(bundle_start) + 1)
       ELSE LET s1 == IF pos(split_at) = After THEN next(split_at) ELSE split_at
            IN IF s1 >= bundle_end THEN prev(prev(s1)) ELSE s1

\* The scan for the last list position of the old bundle and the first of
\* the new one (1-based), from position i on.
RECURSIVE lr_split_idx(_, _, _, _, _)
lr_split_idx(rs, split_at, i, last_old, first_new) ==
    IF i > Len(rs) THEN [last_old |-> last_old, first_new |-> first_new]
    ELSE LET l2 == IF split_at > rs[i].from THEN i ELSE last_old
             f2 == IF split_at > rs[i].from THEN i ELSE first_new
         IN IF split_at < rs[i].to
            THEN [last_old |-> l2, first_new |-> i]
            ELSE lr_split_idx(rs, split_at, i + 1, l2, f2)

\* (A middle cut that leaves the old bundle's list entry as it was.)
cut_range_stale_entry(e, bundle, split_at, last_old, new_lr_list) ==
    LET orig_lr == new_lr_list[1].index
        new_lr == Len(e.ranges) + 1
        us == e.ranges[orig_lr].uses
        first_use == Cardinality({i \in 1..Len(us) :
                                    \A j \in 1..i : us[j].pos < split_at})
    IN
    Let([create_liverange(e, split_at, new_lr_list[1].to) EXCEPT
            !.ranges[new_lr].vreg = e.ranges[orig_lr].vreg], LAMBDA e1 :
    Let([e1 EXCEPT !.ranges[new_lr].uses = SubSeq(us, first_use + 1, Len(us)),
                   !.ranges[orig_lr].uses = SubSeq(us, 1, first_use)], LAMBDA e2 :
    Let([e2 EXCEPT !.ranges[orig_lr] = recompute_range_properties(e2, orig_lr)], LAMBDA e3 :
    Let([e3 EXCEPT !.ranges[new_lr] = recompute_range_properties(e3, new_lr)], LAMBDA e4 :
    Let([e4 EXCEPT !.ranges[orig_lr].to = split_at], LAMBDA e5 :
    Let(e5, LAMBDA e6 :
    [env |-> [e6 EXCEPT !.vregs[e6.ranges[new_lr].vreg] =
                 Append(@, Entry(e6.ranges[new_lr].from, e6.ranges[new_lr].to, new_lr))],
     list |-> [new_lr_list EXCEPT ![1] =
                 Entry(e4.ranges[new_lr].from, e4.ranges[new_lr].to, new_lr)]]))))))

\* (A middle cut that copies the later uses instead of moving them.)
cut_range_copying_uses(e, bundle, split_at, last_old, new_lr_list) ==
    LET orig_lr == new_lr_list[1].index
        new_lr == Len(e.ranges) + 1
        us == e.ranges[orig_lr].uses
        first_use == Cardinality({i \in 1..Len(us) :
                                    \A j \in 1..i : us[j].pos < split_at})
    IN
    Let([create_liverange(e, split_at, new_lr_list[1].to) EXCEPT
            !.ranges[new_lr].vreg = e.ranges[orig_lr].vreg], LAMBDA e1 :
    Let([e1 EXCEPT !.ranges[new_lr].uses = SubSeq(us, first_use + 1, Len(us)),
                   !.ranges[orig_lr].uses = us], LAMBDA e2 :
    Let([e2 EXCEPT !.ranges[orig_lr] = recompute_range_properties(e2, orig_lr)], LAMBDA e3 :
    Let([e3 EXCEPT !.ranges[new_lr] = recompute_range_properties(e3, new_lr)], LAMBDA e4 :
    Let([e4 EXCEPT !.ranges[orig_lr].to = split_at], LAMBDA e5 :
    Let([e5 EXCEPT !.bundles[bundle].ranges[last_old].from = e5.ranges[orig_lr].from,
                   !.bundles[bundle].ranges[last_old].to = e5.ranges[orig_lr].to],
        LAMBDA e6 :
    [env |-> [e6 EXCEPT !.vregs[e6.ranges[new_lr].vreg] =
                 Append(@, Entry(e6.ranges[new_lr].from, e6.ranges[new_lr].to, new_lr))],
     list |-> [new_lr_list EXCEPT ![1] =
                 Entry(e4.ranges[new_lr].from, e4.ranges[new_lr].to, new_lr)]]))))))

\* The middle cut: the range at the head of the new list is split at
\* split_at, its uses at or after split_at go to the new range.
cut_range(e, bundle, split_at, last_old, new_lr_list) ==
    LET orig_lr == new_lr_list[1].index
        new_lr == Len(e.ranges) + 1
        us == e.ranges[orig_lr].uses
        first_use == Cardinality({i \in 1..Len(us) :
                                    \A j \in 1..i : us[j].pos < split_at})
    IN
    Let([create_liverange(e, split_at, new_lr_list[1].to) EXCEPT
            !.ranges[new_lr].vreg = e.ranges[orig_lr].vreg], LAMBDA e1 :
    Let([e1 EXCEPT !.ranges[new_lr].uses = SubSeq(us, first_use + 1, Len(us)),
                   !.ranges[orig_lr].uses = SubSeq(us, 1, first_use)], LAMBDA e2 :
    Let([e2 EXCEPT !.ranges[orig_lr] = recompute_range_properties(e2, orig_lr)], LAMBDA e3 :
    Let([e3 EXCEPT !.ranges[new_lr] = recompute_range_properties(e3, new_lr)], LAMBDA e4 :
    Let([e4 EXCEPT !.ranges[orig_lr].to = split_at], LAMBDA e5 :
    Let([e5 EXCEPT !.bundles[bundle].ranges[last_old].from = e5.ranges[orig_lr].from,
                   !.bundles[bundle].ranges[last_old].to = e5.ranges[orig_lr].to],
        LAMBDA e6 :
    [env |-> [e6 EXCEPT !.vregs[e6.ranges[new_lr].vreg] =
                 Append(@, Entry(e6.ranges[new_lr].from, e6.ranges[new_lr].to, new_lr))],
     list |-> [new_lr_list EXCEPT ![1] =
                 Entry(e4.ranges[new_lr].from, e4.ranges[new_lr].to, new_lr)]]))))))

RECURSIVE set_range_bundle(_, _, _, _)
set_range_bundle(rgs, list, i, b) ==
    IF i > Len(list) THEN rgs
    ELSE set_range_bundle([rgs EXCEPT ![list[i].index].bundle = b], list, i + 1, b)

RECURSIVE trim_tail(_, _)
\* (A tail trim that keeps the new empty range out of the VReg's list.)
trim_tail_unlisted(e, bundle) ==
    IF e.bundles[bundle].ranges = <<>> THEN e
    ELSE
      LET entry == Last(e.bundles[bundle].ranges)
          end == entry.to
          vreg == e.ranges[entry.index].vreg
          us == e.ranges[entry.index].uses
      IN IF us = <<>>
         THEN Let(get_or_create_spill_bundle(e, bundle, TRUE), LAMBDA g :
              Let([g.env EXCEPT
                      !.bundles[g.spill].ranges = Append(@, entry),
                      !.bundles[bundle].ranges = Front(@),
                      !.ranges[entry.index].bundle = g.spill], LAMBDA e1 :
              trim_tail(e1, bundle)))
         ELSE LET split == before(inst(Last(us).pos) + 1)
              IN IF split < end
                 THEN Let(get_or_create_spill_bundle(e, bundle, TRUE), LAMBDA g :
                      LET n == Len(g.env.bundles[bundle].ranges)
                          empty_lr == Len(g.env.ranges) + 1
                      IN [create_liverange(g.env, split, end) EXCEPT
                             !.bundles[bundle].ranges[n].to = split,
                             !.ranges[entry.index].to = split,
                             !.bundles[g.spill].ranges = Append(@, Entry(split, end, empty_lr)),
                             !.ranges[empty_lr].bundle = g.spill,
                             !.vregs[vreg] = @])
                 ELSE e

\* (A tail trim that cuts before the instruction of the last use.)
trim_tail_at_last_use(e, bundle) ==
    IF e.bundles[bundle].ranges = <<>> THEN e
    ELSE
      LET entry == Last(e.bundles[bundle].ranges)
          end == entry.to
          vreg == e.ranges[entry.index].vreg
          us == e.ranges[entry.index].uses
      IN IF us = <<>>
         THEN Let(get_or_create_spill_bundle(e, bundle, TRUE), LAMBDA g :
              Let([g.env EXCEPT
                      !.bundles[g.spill].ranges = Append(@, entry),
                      !.bundles[bundle].ranges = Front(@),
                      !.ranges[entry.index].bundle = g.spill], LAMBDA e1 :
              trim_tail(e1, bundle)))
         ELSE LET split == before(inst(Last(us).pos))
              IN IF split < end
                 THEN Let(get_or_create_spill_bundle(e, bundle, TRUE), LAMBDA g :
                      LET n == Len(g.env.bundles[bundle].ranges)
                          empty_lr == Len(g.env.ranges) + 1
                      IN [create_liverange(g.env, split, end) EXCEPT
                             !.bundles[bundle].ranges[n].to = split,
                             !.ranges[entry.index].to = split,
                             !.bundles[g.spill].ranges = Append(@, Entry(split, end, empty_lr)),
                             !.ranges[empty_lr].bundle = g.spill,
                             !.vregs[vreg] = Append(@, Entry(split, end, empty_lr))])
                 ELSE e

\* Old bundle: use-free last ranges go to the spill bundle; the use-free
\* tail of the last range with uses becomes a new empty range there.
trim_tail(e, bundle) ==
    IF e.bundles[bundle].ranges = <<>> THEN e
    ELSE
      LET entry == Last(e.bundles[bundle].ranges)
          end == entry.to
          vreg == e.ranges[entry.index].vreg
          us == e.ranges[entry.index].uses
      IN IF us = <<>>
         THEN Let(get_or_create_spill_bundle(e, bundle, TRUE), LAMBDA g :
              Let([g.env EXCEPT
                      !.bundles[g.spill].ranges = Append(@, entry),
                      !.bundles[bundle].ranges = Front(@),
                      !.ranges[entry.index].bundle = g.spill], LAMBDA e1 :
              trim_tail(e1, bundle)))
         ELSE LET split == before(inst(Last(us).pos) + 1)
              IN IF split < end
                 THEN Let(get_or_create_spill_bundle(e, bundle, TRUE), LAMBDA g :
                      LET n == Len(g.env.bundles[bundle].ranges)
                          empty_lr == Len(g.env.ranges) + 1
                      IN [create_liverange(g.env, split, end) EXCEPT
                             !.bundles[bundle].ranges[n].to = split,
                             !.ranges[entry.index].to = split,
                             !.bundles[g.spill].ranges = Append(@, Entry(split, end, empty_lr)),
                             !.ranges[empty_lr].bundle = g.spill,
                             !.vregs[vreg] = Append(@, Entry(split, end, empty_lr))])
                 ELSE e

\* (A head trim that leaves the new bundle as the cut made it.)
trim_head_never(e, new_bundle) == e

\* New bundle: the same at the front, unless the first range starts at a def.
RECURSIVE trim_head(_, _)
trim_head(e, new_bundle) ==
    IF e.bundles[new_bundle].ranges = <<>> THEN e
    ELSE
      LET entry == Head(e.bundles[new_bundle].ranges)
          start == entry.from
          vreg == e.ranges[entry.index].vreg
          us == e.ranges[entry.index].uses
      IN IF e.ranges[entry.index].starts_at_def THEN e
         ELSE IF us = <<>>
         THEN Let(get_or_create_spill_bundle(e, new_bundle, TRUE), LAMBDA g :
              Let([g.env EXCEPT
                      !.bundles[g.spill].ranges = Append(@, entry),
                      !.bundles[new_bundle].ranges = Tail(@),
                      !.ranges[entry.index].bundle = g.spill], LAMBDA e1 :
              trim_head(e1, new_bundle)))
         ELSE LET split == before(inst(us[1].pos))
              IN IF split > start
                 THEN Let(get_or_create_spill_bundle(e, new_bundle, TRUE), LAMBDA g :
                      LET empty_lr == Len(g.env.ranges) + 1
                      IN [create_liverange(g.env, start, split) EXCEPT
                             !.bundles[new_bundle].ranges[1].from = split,
                             !.ranges[entry.index].from = split,
                             !.bundles[g.spill].ranges = Append(@, Entry(start, split, empty_lr)),
                             !.ranges[empty_lr].bundle = g.spill,
                             !.vregs[vreg] = Append(@, Entry(start, split, empty_lr))])
                 ELSE e

\* (A split that enqueues neither half.)
requeue_never(e, bundle, reg_hint) == e
requeue(e, bundle, reg_hint) ==
    IF Len(e.bundles[bundle].ranges) > 0
    THEN Let(recompute_bundle_properties(e, bundle), LAMBDA b :
         [e EXCEPT !.bundles[bundle] = b,
                   !.allocation_queue = queue_insert(@, bundle, b.prio, reg_hint)])
    ELSE e

\* The debug_assert that fails in split_and_requeue_bundle, "" when none does.
split_assert(e, bundle, split_at) ==
    LET bundle_start == bundle_start_of(e, bundle)
        bundle_end == bundle_end_of(e, bundle)
        s == normalized_split_point(e, bundle, split_at)
        idx == lr_split_idx(e.bundles[bundle].ranges, s, 1, 1, 1)
    IN IF e.bundles[bundle].ranges = <<>> THEN "ranges.is_empty()"
       ELSE IF ~(split_at >= bundle_start) THEN "split_at >= bundle_start"
       ELSE IF ~(split_at < bundle_end) THEN "split_at < bundle_end"
       ELSE IF ~(s > bundle_start /\ s < bundle_end)
       THEN "split_at > bundle_start && split_at < bundle_end"
       ELSE IF e.bundles[bundle].ranges[idx.first_new].from < s
               /\ idx.last_old # idx.first_new
       THEN "last_lr_in_old_bundle_idx == first_lr_in_new_bundle_idx"
       ELSE ""

\* The arenas after split_and_requeue_bundle (its assertions holding).
split_and_requeue_bundle(e, bundle, raw_split_at, reg_hint) ==
    LET spillset == e.bundles[bundle].spillset
        rs == e.bundles[bundle].ranges
    IN
    Let(normalized_split_point(e, bundle, raw_split_at), LAMBDA split_at :
    Let(lr_split_idx(rs, split_at, 1, 1, 1), LAMBDA idx :
    Let(SubSeq(rs, idx.first_new, Len(rs)), LAMBDA new_lr_list0 :
    Let([e EXCEPT !.bundles[bundle].ranges = SubSeq(rs, 1, idx.last_old)], LAMBDA e1 :
    Let(IF split_at > new_lr_list0[1].from
        THEN cut_range(e1, bundle, split_at, idx.last_old, new_lr_list0)
        ELSE [env |-> e1, list |-> new_lr_list0], LAMBDA cut :
    Let(Len(cut.env.bundles) + 1, LAMBDA new_bundle :
    Let([create_bundle(cut.env) EXCEPT
            !.bundles[new_bundle].spillset = spillset,
            !.bundles[new_bundle].ranges = cut.list,
            !.ranges = set_range_bundle(@, cut.list, 1, new_bundle)], LAMBDA e2 :
    Let(trim_tail(e2, bundle), LAMBDA e3 :
    Let(trim_head(e3, new_bundle), LAMBDA e4 :
    Let(requeue(e4, bundle, reg_hint), LAMBDA e5 :
    requeue(e5, new_bundle, reg_hint)))))))))))


\* ----------------------------------------------------------- process_bundle
\* RegTraversalIter: the fixed PReg alone when given; otherwise the hint
\* first, then the preferred and the non-preferred registers of the class,
\* each rotated by the scan offset, the hint left out.
rotated(regs, offset) ==
    IF regs = <<>> THEN <<>>
    ELSE [i \in 1..Len(regs) |-> regs[((offset + i - 1) % Len(regs)) + 1]]

RECURSIVE without(_, _)
without(regs, p) ==
    IF regs = <<>> THEN <<>>
    ELSE IF Head(regs) = p THEN without(Tail(regs), p)
    ELSE <<Head(regs)>> \o without(Tail(regs), p)

RegTraversalIter(hint_reg, scan_offset, fixed_preg) ==
    IF fixed_preg # Invalid THEN <<fixed_preg>>
    ELSE (IF hint_reg # Invalid THEN <<hint_reg>> ELSE <<>>)
           \o without(rotated(preferred_regs_by_class, scan_offset), hint_reg)
           \o without(rotated(non_preferred_regs_by_class, scan_offset), hint_reg)

move_cost_at(e, point) ==
    spill_weight_from_constraint(Constraint("Reg"),
                                 e.approx_loop_depth[insn_block(inst(point))], TRUE)

\* The trackers of one probe round before any PReg is probed.
NoProbe ==
    [allocated |-> Invalid, limit |-> None,
     evict_set |-> <<>>, evict_cost |-> None,
     split_cost |-> None, split_point |-> before(0), split_reg |-> Invalid]

\* (A scan limit of zero once both costs are known.)
scan_limit_cost_zero(t) ==
    IF t.evict_cost # None /\ t.split_cost # None
    THEN 0 ELSE None

scan_limit_cost(t) ==
    IF t.evict_cost # None /\ t.split_cost # None
    THEN Max(t.evict_cost, t.split_cost) ELSE None

\* One pass over the candidate PRegs, from position i of `regs` on.
RECURSIVE probe(_, _, _, _, _)
probe(e, bundle, regs, i, t) ==
    IF i > Len(regs) THEN t
    ELSE
      LET preg == regs[i]
          limit == scan_limit_cost(t)
      IN Let(try_result(e, bundle, preg, limit), LAMBDA r :
         CASE r.tag = "Allocated" ->
                [t EXCEPT !.allocated = preg, !.limit = limit]
           [] r.tag = "Conflict" ->
                LET conflict_cost == maximum_spill_weight_in_bundle_set(e, r.bundles)
                    t1 == IF t.evict_cost = None \/ conflict_cost < t.evict_cost
                          THEN [t EXCEPT !.evict_cost = conflict_cost,
                                         !.evict_set = r.bundles]
                          ELSE t
                    cost == conflict_cost + move_cost_at(e, r.point)
                    t2 == IF t1.split_cost = None \/ cost < t1.split_cost
                          THEN [t1 EXCEPT !.split_cost = cost, !.split_point = r.point,
                                          !.split_reg = preg]
                          ELSE t1
                IN Let(t2, LAMBDA t3 : probe(e, bundle, regs, i + 1, t3))
           [] r.tag = "ConflictWithFixed" ->
                LET cost == r.cost + move_cost_at(e, r.point)
                    t2 == IF t.split_cost = None \/ cost < t.split_cost
                          THEN [t EXCEPT !.split_cost = cost, !.split_point = r.point,
                                         !.split_reg = preg]
                          ELSE t
                IN Let(t2, LAMBDA t3 : probe(e, bundle, regs, i + 1, t3))
           [] OTHER -> probe(e, bundle, regs, i + 1, t))    \* ConflictHighCost

\* The too-many-live-registers count over one PReg map: entries from
\* position i on, skipping those that end at or before the range, stopping
\* at the first that starts at or after its end.
RECURSIVE live_count(_, _, _, _)
live_count(e, bt, range, i) ==
    IF i > Len(bt) THEN 0
    ELSE IF bt[i].to <= range.from THEN live_count(e, bt, range, i + 1)
    ELSE IF bt[i].from >= range.to THEN 0
    ELSE (IF bt[i].lr # Invalid
          THEN IF minimal_bundle(e, e.ranges[bt[i].lr].bundle) THEN 1 ELSE 0
          ELSE 1)
         + live_count(e, bt, range, i + 1)

class_regs == preferred_regs_by_class \o non_preferred_regs_by_class

\* min_bundles_assigned + fixed_assigned over the PRegs of the class
too_many_live_count(e, bundle) ==
    LET range == e.bundles[bundle].ranges[1]
    IN SumSeq([k \in 1..Len(class_regs) |->
                 live_count(e, e.pregs[class_regs[k]], range,
                            btree_range(e.pregs[class_regs[k]],
                                        PointKey(prev(range.from))))])

\* (A register count one too high.)
total_regs_and_one == Len(class_regs) + 1
total_regs == Len(class_regs)

RECURSIVE hoist(_, _, _, _, _)
\* (A hoist to the entry of the block before the first deeper block.)
hoist_to_previous_block(e, block, last_block, depth, split_at_point) ==
    IF block > last_block THEN split_at_point
    ELSE IF e.approx_loop_depth[block] > depth THEN block_entry(block - 1)
    ELSE hoist(e, block + 1, last_block, depth, split_at_point)

\* The split point of the decision path, hoisted out of a deeper loop.
hoist(e, block, last_block, depth, split_at_point) ==
    IF block > last_block THEN split_at_point
    ELSE IF e.approx_loop_depth[block] > depth THEN block_entry(block)
    ELSE hoist(e, block + 1, last_block, depth, split_at_point)

decision_split_point(e, bundle, t) ==
    LET bundle_start == e.bundles[bundle].ranges[1].from
        split_at_point == Max(t.split_point, bundle_start)
        bundle_start_depth == e.approx_loop_depth[insn_block(inst(bundle_start))]
        split_at_depth == e.approx_loop_depth[insn_block(inst(split_at_point))]
    IN IF split_at_depth > bundle_start_depth
       THEN hoist(e, insn_block(inst(bundle_start)) + 1, insn_block(inst(split_at_point)),
                  bundle_start_depth, split_at_point)
       ELSE split_at_point

scan_offset_of(e, bundle) ==
    inst(e.ranges[e.bundles[bundle].ranges[1].index].from) + (bundle - 1)

fixed_preg_of(req) == IF req.kind \in {"FixedReg", "FixedStack"} THEN req.preg ELSE Invalid

\* (A minimal bundle that evicts occupants of its own weight.)
must_fail_above_weight(e, bundle, attempts, t) ==
    /\ minimal_bundle(e, bundle)
    /\ (attempts >= 2 \/ t.evict_cost = None
          \/ t.evict_cost > bundle_spill_weight(e, bundle))

\* A minimal bundle that did not allocate and will not evict.
must_fail(e, bundle, attempts, t) ==
    /\ minimal_bundle(e, bundle)
    /\ (attempts >= 2 \/ t.evict_cost = None
          \/ t.evict_cost >= bundle_spill_weight(e, bundle))

\* (A split decision that lets a bundle of equal weight evict.)
chooses_split_strict(e, bundle, attempts, t) ==
    /\ ~minimal_bundle(e, bundle)
    /\ (attempts >= 2 \/ t.evict_cost = None
          \/ bundle_spill_weight(e, bundle) < t.evict_cost)
\* A non-minimal bundle splits rather than evicts.
chooses_split(e, bundle, attempts, t) ==
    /\ ~minimal_bundle(e, bundle)
    /\ (attempts >= 2 \/ t.evict_cost = None
          \/ bundle_spill_weight(e, bundle) <= t.evict_cost)

\* What one iteration of the allocation loop of process_bundle does, for
\* the locals c = [bundle, reg_hint, hint_reg, req, attempts] (attempts
\* already counted): the step taken, the arenas after it, the trackers.
loop_decision(e, c, t) ==
    LET bundle == c.bundle
        ss == e.bundles[bundle].spillset
        out(step, env, halt, split_at) ==
            [step |-> step, env |-> env, halt |-> halt, probe |-> t, split_at |-> split_at]
    IN
    IF e.debug_assertions /\ ~(c.attempts < AttemptFactor * NumInsts)
    THEN out("panic", e, "attempts < 100 * num_insts", 0)
    ELSE IF c.req.kind = "Stack"
    THEN out("stack", [e EXCEPT !.spillsets[ss].required = TRUE], "", 0)
    ELSE IF c.req.kind = "Any"
    THEN out("spilled", [e EXCEPT !.spilled_bundles = Append(@, bundle)], "", 0)
    ELSE IF t.allocated # Invalid
    THEN out("allocated",
             [try_to_allocate_bundle_to_reg(e, bundle, t.allocated, t.limit) EXCEPT
                 !.spillsets[ss].reg_hint = t.allocated],
             "", 0)
    ELSE IF e.debug_assertions /\ t.split_cost = None /\ t.evict_cost = None
    THEN out("panic", e, "split or evict option", 0)
    ELSE IF must_fail(e, bundle, c.attempts, t)
    THEN IF c.req.kind = "Register" /\ too_many_live_count(e, bundle) >= total_regs
         THEN out("error", e, "TooManyLiveRegs", 0)
         ELSE out("panic", e, "Could not allocate minimal bundle", 0)
    ELSE IF chooses_split(e, bundle, c.attempts, t)
    THEN LET split_at_point == decision_split_point(e, bundle, t)
             failed == split_assert(e, bundle, split_at_point)
         IN IF e.debug_assertions /\ failed # ""
            THEN out("panic", e, failed, split_at_point)
            ELSE out("split", split_and_requeue_bundle(e, bundle, split_at_point, t.split_reg),
                     "", split_at_point)
    ELSE IF t.evict_cost = None
    THEN out("panic", e, "lowest_cost_evict_conflict_set.unwrap()", 0)
    ELSE out("evict", e, "", 0)

loop_iteration(e, c) ==
    Let(probe(e, c.bundle,
              RegTraversalIter(c.hint_reg, scan_offset_of(e, c.bundle), fixed_preg_of(c.req)),
              1, NoProbe),
        LAMBDA t : loop_decision(e, c, t))


\* --------------------------------------------------------------- the input
\* A use of a vreg shape, with the weight liveness stores for it.
Use(p, kind, constraint, depth) ==
    [pos |-> p, kind |-> kind, constraint |-> constraint,
     weight |-> weight_bits(spill_weight_from_constraint(
                    constraint, depth[insn_block(inst(p))], kind = "Def"))]

\* The shapes of a vreg over its live range [from, to):
\*   "def"  defined at `from` (an After point) into a register and, if it
\*          lives on, last used at the Before point `to - 1` under `last`
\*          (a range of one point carries `last` on the def);
\*   "none" live in at the Before point `from` of a later instruction, used
\*          at `to - 1` only;
\*   "use"  used twice by one instruction: at its Before point in a
\*          register and at its After point under `last`.
Shapes ==
    { sh \in [from : Points, to : 1..(2 * NumInsts), first : {"def", "none", "use"},
              last : {"Reg", "Any", "Stack", "FixedReg"}] :
        /\ sh.from < sh.to
        /\ sh.first = "def" =>
              /\ pos(sh.from) = After
              /\ sh.to = sh.from + 1 \/ pos(sh.to - 1) = Before
              /\ sh.to = sh.from + 1 => sh.last \in {"Reg", "FixedReg"}
        /\ sh.first = "none" =>
              /\ sh.from > 0
              /\ pos(sh.from) = Before /\ pos(sh.to - 1) = Before /\ sh.to > sh.from + 1
              /\ sh.last \in {"Reg", "Any"}
        /\ sh.first = "use" =>
              /\ sh.from > 0
              /\ pos(sh.from) = Before /\ sh.to = sh.from + 2
              /\ sh.last \in {"Stack", "FixedReg"} }

flavor(sh) == IF sh.last = "FixedReg" THEN FixedRegC(1) ELSE Constraint(sh.last)

shape_uses(sh, depth) ==
    (CASE sh.first = "def" ->
            <<Use(sh.from, "Def",
                  IF sh.to = sh.from + 1 THEN flavor(sh) ELSE Constraint("Reg"), depth)>>
       [] sh.first = "use" -> <<Use(sh.from, "Use", Constraint("Reg"), depth)>>
       [] OTHER -> <<>>)
    \o (IF sh.to > sh.from + 1 THEN <<Use(sh.to - 1, "Use", flavor(sh), depth)>> ELSE <<>>)

\* The requirement of a shape's uses, Req("Conflict") if they do not merge.
shape_requirement(sh) ==
    LET us == shape_uses(sh, [b \in 1..NumBlocks |-> 0])
    IN merge_uses(us, 1, Req("Any")).req

\* Fixed reservations: one ProgPoint q reserved on every PReg from k on.
Reservations == {[q |-> 0, k |-> NumPRegs + 1]} \cup [q : Points, k : PRegs]

\* Bundles before the loop: one per vreg, or vregs 1 and 2 merged in one
\* bundle when the first ends before the second starts.
Partitions(prog) ==
    {[v \in 1..Len(prog) |-> <<v>>]}
    \cup (IF Len(prog) >= 2 /\ prog[1].to <= prog[2].from
               /\ shape_requirement(prog[1]).kind # "Conflict"
               /\ shape_requirement(prog[2]).kind # "Conflict"
               /\ merge(shape_requirement(prog[1]),
                        shape_requirement(prog[2])).kind # "Conflict"
          THEN {[b \in 1..(Len(prog) - 1) |-> IF b = 1 THEN <<1, 2>> ELSE <<b + 1>>]}
          ELSE {})

BundleOf(part, v) == CHOOSE b \in 1..Len(part) : SeqHas(part[b], v)

RECURSIVE queue_all(_, _, _)
queue_all(e, b, q) ==
    IF b > Len(e.bundles) THEN q
    ELSE queue_all(e, b + 1, queue_insert(q, b, e.bundles[b].prio, Invalid))

\* The arenas liveness and merging hand to process_bundles: the ranges, the
\* bundles, the fixed reservations.
InitArenas(prog, part, res, depth) ==
    [ranges |-> [v \in 1..Len(prog) |->
                   [NewLiveRange(prog[v].from, prog[v].to) EXCEPT
                       !.vreg = v, !.bundle = BundleOf(part, v),
                       !.uses = shape_uses(prog[v], depth)]],
     bundles |-> [b \in 1..Len(part) |->
                    [NewBundle EXCEPT
                        !.ranges = [i \in 1..Len(part[b]) |->
                                      Entry(prog[part[b][i]].from,
                                            prog[part[b][i]].to, part[b][i])],
                        !.spillset = b]],
     spillsets |-> [b \in 1..Len(part) |->
                      [reg_hint |-> Invalid, required |-> FALSE,
                       spill_bundle |-> Invalid]],
     vregs |-> [v \in 1..Len(prog) |-> <<Entry(prog[v].from, prog[v].to, v)>>],
     pregs |-> [p \in PRegs |->
                  IF p >= res.k
                  THEN <<[from |-> res.q, to |-> res.q + 1, lr |-> Invalid]>>
                  ELSE <<>>],
     allocation_queue |-> <<>>,
     spilled_bundles |-> <<>>,
     approx_loop_depth |-> depth,
     debug_assertions |-> TRUE]

\* The cached properties of every range, of every bundle, then the queue
\* of all bundles, as they stand when process_bundles starts.
WithRangeProperties(e) ==
    [e EXCEPT !.ranges = [r \in 1..Len(e.ranges) |-> recompute_range_properties(e, r)]]

WithBundleProperties(e) ==
    [e EXCEPT !.bundles = [b \in 1..Len(e.bundles) |-> recompute_bundle_properties(e, b)]]

Queued(e) == [e EXCEPT !.allocation_queue = queue_all(e, 1, <<>>)]

NoCur == [bundle |-> Invalid, reg_hint |-> Invalid, hint_reg |-> Invalid,
          req |-> Req("Any"), attempts |-> 0]

Did(op, bundle, step, halt, t, attempts, split_at, minimal, req, weight) ==
    [op |-> op, bundle |-> bundle, step |-> step, halt |-> halt, probe |-> t,
     attempts |-> attempts, split_at |-> split_at, minimal |-> minimal, req |-> req,
     weight |-> weight]

SetEnv(e) ==
    /\ ranges' = e.ranges
    /\ bundles' = e.bundles
    /\ spillsets' = e.spillsets
    /\ vregs' = e.vregs
    /\ pregs' = e.pregs
    /\ allocation_queue' = e.allocation_queue
    /\ spilled_bundles' = e.spilled_bundles
    /\ approx_loop_depth' = e.approx_loop_depth
    /\ debug_assertions' = e.debug_assertions

Depths == {[b \in 1..NumBlocks |-> 0], [b \in 1..NumBlocks |-> b - 1]}

Init ==
    \E prog \in Shapes \X Shapes, res \in Reservations, depth \in Depths :
      \E part \in Partitions(prog) :
        \E e0 \in {InitArenas(prog, part, res, depth)} :
        \E e1 \in {WithRangeProperties(e0)} :
        \E e2 \in {WithBundleProperties(e1)} :
        \E e \in {Queued(e2)} :
           /\ ranges = e.ranges
           /\ bundles = e.bundles
           /\ spillsets = e.spillsets
           /\ vregs = e.vregs
           /\ pregs = e.pregs
           /\ allocation_queue = e.allocation_queue
           /\ spilled_bundles = e.spilled_bundles
           /\ approx_loop_depth = e.approx_loop_depth
           /\ debug_assertions = e.debug_assertions
           /\ pc = "queue"
           /\ cur = NoCur
           /\ evict_list = <<>>
           /\ last = Did("init", Invalid, "", "", NoProbe, 0, 0, FALSE, Req("Any"), 0)
           /\ NoStackmaps

\* ------------------------------------------------------------------ actions
\* process_bundles: the queue is empty, return Ok.
Finish ==
    /\ UNCHANGED stackmap_vars
    /\ pc = "queue"
    /\ allocation_queue = <<>>
    /\ pc' = "done"
    /\ last' = Did("finish", Invalid, "ok", "", NoProbe, 0, 0, FALSE, Req("Any"), 0)
    /\ UNCHANGED <<ranges, bundles, spillsets, vregs, pregs, allocation_queue,
                   spilled_bundles, approx_loop_depth, debug_assertions, cur, evict_list>>

\* The arenas after migrating all ranges of a bundle to the spill bundle.
migrate_to_spill(e, bundle, spill) ==
    LET list == e.bundles[bundle].ranges
    IN [e EXCEPT !.bundles[bundle].ranges = <<>>,
                 !.ranges = set_range_bundle(@, list, 1, spill),
                 !.bundles[spill].ranges = @ \o list]

\* The texts of the debug_assert! checks; a release build passes them over.
DebugAsserts ==
    {"Minimal bundle with conflict!", "attempts < 100 * num_insts", "split or evict option",
     "ranges.is_empty()", "split_at >= bundle_start", "split_at < bundle_end",
     "split_at > bundle_start && split_at < bundle_end",
     "last_lr_in_old_bundle_idx == first_lr_in_new_bundle_idx"}

release(e) == [e EXCEPT !.debug_assertions = FALSE]

\* A debug build stops on a failed debug_assert!, a release build goes on.
failed_debug_assert(o) == o.step = "panic" /\ o.halt \in DebugAsserts

\* process_bundles pops a bundle; process_bundle up to its allocation loop:
\* the hint, the requirement, the split on a requirement conflict, the
\* migration of a bundle without requirement to an existing spill bundle.
process_bundle_entry(e, bundle, reg_hint) ==
    LET ss == e.bundles[bundle].spillset
        hint0 == IF reg_hint # Invalid THEN reg_hint ELSE e.spillsets[ss].reg_hint
        hint_reg == IF hint0 # Invalid /\ is_stack(hint0) THEN Invalid ELSE hint0
        r == compute_requirement(e, bundle)
        spill == get_or_create_spill_bundle(e, bundle, FALSE).spill
        c == [bundle |-> bundle, reg_hint |-> reg_hint, hint_reg |-> hint_reg,
              req |-> r.req, attempts |-> 0]
        out(step, env, halt, split_at) ==
            [step |-> step, env |-> env, halt |-> halt, cur |-> c, split_at |-> split_at]
    IN IF ~r.ok
       THEN IF e.debug_assertions /\ minimal_bundle(e, bundle)
            THEN out("panic", e, "Minimal bundle with conflict!", r.point)
            ELSE IF e.debug_assertions /\ split_assert(e, bundle, r.point) # ""
            THEN out("panic", e, split_assert(e, bundle, r.point), r.point)
            ELSE out("conflict_split",
                     split_and_requeue_bundle(e, bundle, r.point, reg_hint), "", r.point)
       ELSE IF r.req.kind = "Any" /\ spill # Invalid
       THEN out("migrated", migrate_to_spill(e, bundle, spill), "", 0)
       ELSE out("loop", e, "", 0)

ProcessBundle ==
    /\ UNCHANGED stackmap_vars
    /\ pc = "queue"
    /\ allocation_queue # <<>>
    /\ Len(bundles) < MaxBundles
    /\ \E i \in {queue_top(allocation_queue)} :
       \E bundle \in {allocation_queue[i].bundle} :
       \E popped \in {[Env EXCEPT !.allocation_queue = queue_remove(@, i)]} :
       \E d \in {process_bundle_entry(popped, bundle, allocation_queue[i].reg_hint)} :
       \E o \in IF failed_debug_assert(d)
                THEN {d, process_bundle_entry(release(popped), bundle,
                                              allocation_queue[i].reg_hint)}
                ELSE {d} :
          /\ SetEnv(o.env)
          /\ pc' = CASE o.step = "panic" -> "panic"
                     [] o.step = "loop" -> "loop"
                     [] OTHER -> "queue"
          /\ cur' = IF o.step = "loop" THEN o.cur ELSE NoCur
          /\ last' = Did("process_bundle", bundle, o.step, o.halt, NoProbe, 0,
                         o.split_at, minimal_bundle(popped, bundle), o.cur.req,
                         bundle_spill_weight(popped, bundle))
    /\ UNCHANGED evict_list

\* One iteration of the allocation loop of process_bundle.
AllocationLoop ==
    /\ UNCHANGED stackmap_vars
    /\ pc = "loop"
    /\ \E c \in {[cur EXCEPT !.attempts = @ + 1]} :
       \E e \in {Env} :
       \E d \in {loop_iteration(e, c)} :
       \E o \in IF failed_debug_assert(d) THEN {d, loop_iteration(release(e), c)}
                ELSE {d} :
          /\ SetEnv(o.env)
          /\ pc' = CASE o.step = "panic" -> "panic"
                     [] o.step = "error" -> "err"
                     [] o.step = "evict" -> "evict"
                     [] OTHER -> "queue"
          /\ cur' = IF o.step = "evict" THEN c ELSE NoCur
          /\ evict_list' = IF o.step = "evict" THEN o.probe.evict_set ELSE <<>>
          /\ last' = Did("loop", c.bundle, o.step, o.halt, o.probe, c.attempts,
                         o.split_at, minimal_bundle(Env, c.bundle), c.req,
                         bundle_spill_weight(Env, c.bundle))

\* The eviction of the next bundle of the chosen conflict set.
EvictNext ==
    /\ UNCHANGED stackmap_vars
    /\ pc = "evict"
    /\ evict_list # <<>>
    /\ \E e \in {evict_bundle(Env, Head(evict_list))} : SetEnv(e)
    /\ evict_list' = Tail(evict_list)
    /\ pc' = IF Tail(evict_list) = <<>> THEN "loop" ELSE "evict"
    /\ last' = Did("evict", Head(evict_list), "evicted", "", NoProbe, cur.attempts, 0,
                   minimal_bundle(Env, Head(evict_list)), cur.req,
                   bundle_spill_weight(Env, Head(evict_list)))
    /\ UNCHANGED cur

Next == Finish \/ ProcessBundle \/ AllocationLoop \/ EvictNext

Spec == Init /\ [][Next]_vars

\* process_bundles under a scheduler that lets it run (a step that can be
\* taken is taken), on the inputs without fixed reservations and without
\* loops.
FairInit ==
    /\ Init
    /\ pregs = [p \in PRegs |-> <<>>]
    /\ approx_loop_depth = [b \in 1..NumBlocks |-> 0]

FairSpec == FairInit /\ [][Next]_vars /\ WF_vars(Next)

\* ------------------------------------------------------------------ claims
Overlap(a, b) == a.from < b.to /\ b.from < a.to
Bundles == 1..Len(bundles)

\* C1: for every PReg, the code ranges keyed in its allocation map are
\* pairwise non-overlapping in every state process_bundles reaches.
C1_NonOverlappingKeys ==
    \A p \in PRegs : \A i, j \in 1..Len(pregs[p]) :
        i # j => ~Overlap(pregs[p][i], pregs[p][j])

\* A bundle was allocated next to another entry of the same PReg.
C1_Witness ==
    /\ last.step = "allocated"
    /\ Len(pregs[bundles[last.bundle].allocation]) >= 2

\* C2: bundle allocations and PReg maps agree. A bundle with ranges has
\* allocation reg(p) exactly when each of its ranges is keyed in p's map and
\* mapped to the range's index; every valid entry of p's map maps a range
\* whose bundle has allocation reg(p).
InMap(p, entry) ==
    \E i \in 1..Len(pregs[p]) :
        pregs[p][i] = [from |-> entry.from, to |-> entry.to, lr |-> entry.index]

C2_AllocationsAgree ==
    /\ \A b \in Bundles : bundles[b].ranges # <<>> =>
          \A p \in PRegs :
             bundles[b].allocation = p
                <=> \A k \in 1..Len(bundles[b].ranges) : InMap(p, bundles[b].ranges[k])
    /\ \A p \in PRegs : \A i \in 1..Len(pregs[p]) :
          pregs[p][i].lr # Invalid
             => bundles[ranges[pregs[p][i].lr].bundle].allocation = p

\* A bundle took a PReg after evicting the bundle that held it.
C2_Witness ==
    /\ last.step = "allocated" /\ last.attempts = 2
    /\ bundles[last.bundle].allocation \in PRegs
    /\ \E b \in Bundles : b # last.bundle /\ bundles[b].ranges # <<>>
                          /\ bundles[b].allocation = Invalid

\* C3: after process_bundles returns Ok, every bundle of the arena, the
\* emptied ones included, has an allocation, or is in spilled_bundles, or
\* has a spillset that is required.
Settled(b) ==
    \/ bundles[b].allocation # Invalid
    \/ SeqHas(spilled_bundles, b)
    \/ spillsets[bundles[b].spillset].required

C3_EveryBundleSettled == pc = "done" => \A b \in Bundles : Settled(b)

\* C3 as the code has it: after Ok, every bundle that still has ranges has
\* an allocation, or is in spilled_bundles, or has a required spillset.
C3_BundlesWithRangesSettled ==
    pc = "done" => \A b \in Bundles : bundles[b].ranges # <<>> => Settled(b)

\* Ok was returned after a split left a bundle in the arena without ranges.
C3_Witness ==
    /\ pc = "done"
    /\ \E b \in Bundles : bundles[b].ranges = <<>>
    /\ \E b \in Bundles : bundles[b].ranges # <<>> /\ bundles[b].allocation # Invalid

C5_EvictorOutweighs ==
    /\ pc = "evict" =>
          \A i \in 1..Len(evict_list) :
             bundles[cur.bundle].spill_weight > bundles[evict_list[i]].spill_weight
    /\ last.op = "evict" => bundles[cur.bundle].spill_weight > last.weight
    /\ (/\ last.op = "loop" /\ ~last.minimal
        /\ last.step \in {"split", "evict"}
        /\ last.probe.evict_cost # None
        /\ last.weight <= last.probe.evict_cost) => last.step = "split"

\* A bundle was evicted.
C5_Witness == last.op = "evict" /\ last.weight > 0

\* C6: the probe round after an eviction allocates the evicting bundle; the
\* loop runs at most two rounds and attempts stays below 100 * num_insts.
C6_SecondRoundAllocates ==
    /\ (last.op = "loop" /\ last.attempts >= 2) => last.step = "allocated"
    /\ last.attempts <= 2
    /\ cur.attempts < AttemptFactor * NumInsts

\* The second round allocated the bundle.
C6_Witness == last.op = "loop" /\ last.attempts = 2 /\ last.step = "allocated"

\* C7: split_and_requeue_bundle is never invoked on a minimal bundle, on
\* the requirement-conflict path or on the split decision path.
C7_MinimalNeverSplit ==
    ~(last.step \in {"conflict_split", "split"} /\ last.minimal)

\* C8: a minimal bundle that fails to allocate, with at least as many
\* minimal occupants and fixed reservations over its range as its class has
\* PRegs, gets Err(TooManyLiveRegs), whatever its requirement.
MinimalFailed ==
    /\ last.op = "loop" /\ last.minimal
    /\ last.halt \in {"TooManyLiveRegs", "Could not allocate minimal bundle"}

LiveOccupants(range) ==
    UNION {{<<p, i>> : i \in {i \in 1..Len(pregs[p]) :
                                /\ Overlap(pregs[p][i], range)
                                /\ \/ pregs[p][i].lr = Invalid
                                   \/ bundles[ranges[pregs[p][i].lr].bundle].minimal}}
           : p \in PRegs}

MaxGap == 2

TryInputs ==
    { inp \in [a : 0..MaxGap, l1 : 1..MaxGap,
               b : (MaxGap + SkipLimit - 1)..(MaxGap + SkipLimit + 3), l2 : 1..MaxGap,
               n : (SkipLimit - 1)..(SkipLimit + MaxGap),
               fixed : {0, 1, SkipLimit, SkipLimit + 1, SkipLimit + MaxGap},
               hole : {0, SkipLimit + 1},
               p : PRegs] :
        /\ inp.fixed <= inp.n
        /\ inp.hole <= inp.n
        /\ inp.hole # 0 => inp.hole # inp.fixed }

\* The arenas: bundle 1 is the candidate, bundles 2 and 3 own the entries
\* of the run in turn and are allocated to the PReg; entry `fixed` of the
\* run is a fixed reservation, entry `hole` is absent.
TryArenas(inp) ==
    LET depth == [b \in 1..NumBlocks |-> 0]
        keep(j) == j # inp.hole
        valid(j) == j # inp.hole /\ j # inp.fixed
        owner(j) == 2 + (j % 2)
        J == SelectSeq([j \in 1..inp.n |-> j], keep)
        V == SelectSeq([j \in 1..inp.n |-> j], valid)
        lr_of(j) == 2 + Cardinality({k \in 1..j : valid(k)})
        from_of(j) == MaxGap + j - 1
        range_of(from, to, v) ==
            [NewLiveRange(from, to) EXCEPT
                !.vreg = v, !.bundle = v,
                !.uses = <<Use(from, "Use", Constraint("Reg"), depth)>>]
        rgs == <<range_of(inp.a, inp.a + inp.l1, 1), range_of(inp.b, inp.b + inp.l2, 1)>>
               \o [i \in 1..Len(V) |-> range_of(from_of(V[i]), from_of(V[i]) + 1, owner(V[i]))]
        owned(v) ==
            LET idx == SelectSeq([i \in 1..Len(rgs) |-> i], LAMBDA i : rgs[i].vreg = v)
            IN [k \in 1..Len(idx) |-> Entry(rgs[idx[k]].from, rgs[idx[k]].to, idx[k])]
    IN [ranges |-> rgs,
        bundles |-> [v \in 1..3 |->
                       [NewBundle EXCEPT
                           !.ranges = owned(v), !.spillset = v,
                           !.allocation = IF v = 1 THEN Invalid ELSE inp.p]],
        spillsets |-> [v \in 1..3 |->
                         [reg_hint |-> IF v = 1 THEN Invalid ELSE inp.p,
                          required |-> FALSE, spill_bundle |-> Invalid]],
        vregs |-> [v \in 1..3 |-> owned(v)],
        pregs |-> [q \in PRegs |->
                     IF q = inp.p
                     THEN [i \in 1..Len(J) |->
                             [from |-> from_of(J[i]), to |-> from_of(J[i]) + 1,
                              lr |-> IF J[i] = inp.fixed THEN Invalid ELSE lr_of(J[i])]]
                     ELSE <<>>],
        allocation_queue |-> <<>>,
        spilled_bundles |-> <<>>,
        approx_loop_depth |-> depth,
        debug_assertions |-> TRUE]

TryInit ==
    \E inp \in TryInputs :
      \E e0 \in {TryArenas(inp)} :
      \E e1 \in {WithRangeProperties(e0)} :
      \E e \in {WithBundleProperties(e1)} :
         /\ ranges = e.ranges
         /\ bundles = e.bundles
         /\ spillsets = e.spillsets
         /\ vregs = e.vregs
         /\ pregs = e.pregs
         /\ allocation_queue = e.allocation_queue
         /\ spilled_bundles = e.spilled_bundles
         /\ approx_loop_depth = e.approx_loop_depth
         /\ debug_assertions = e.debug_assertions
         /\ pc = "try"
         /\ cur = [NoCur EXCEPT !.bundle = 1, !.hint_reg = inp.p]
         /\ evict_list = <<>>
         /\ last = Did("init", Invalid, "", "", NoProbe, 0, 0, FALSE, Req("Any"), 0)
         /\ NoStackmaps

\* One call try_to_allocate_bundle_to_reg(cur.bundle, cur.hint_reg, None);
\* `last` keeps the variant returned, its conflict list and its point.
TryAllocate ==
    /\ UNCHANGED stackmap_vars
    /\ pc = "try"
    /\ \E e \in {Env} :
       \E r \in {try_result(e, cur.bundle, cur.hint_reg, None)} :
          /\ SetEnv(try_to_allocate_bundle_to_reg(e, cur.bundle, cur.hint_reg, None))
          /\ last' = Did("try", cur.bundle, r.tag, "",
                         [NoProbe EXCEPT !.evict_set = r.bundles], 0, r.point,
                         minimal_bundle(e, cur.bundle), cur.req,
                         bundle_spill_weight(e, cur.bundle))
    /\ pc' = "tried"
    /\ UNCHANGED <<cur, evict_list>>

TrySpec == TryInit /\ [][TryAllocate]_vars

\* The entries of a PReg's map that overlap a range of the bundle, found
\* by comparing every entry with every range.
NaiveOverlaps(b, p) ==
    {i \in 1..Len(pregs[p]) :
        \E k \in 1..Len(bundles[b].ranges) : Overlap(pregs[p][i], bundles[b].ranges[k])}

\* The entries of others that lie between the starts of the bundle's first
\* and last range, wholly before the last: the sweep skips them.
SkippedEntries(b, p) ==
    {i \in 1..Len(pregs[p]) :
        /\ pregs[p][i].lr = Invalid \/ ranges[pregs[p][i].lr].bundle # b
        /\ pregs[p][i].to > bundles[b].ranges[1].from
        /\ pregs[p][i].to <= Last(bundles[b].ranges).from}

\* C9: with no cost limit, try_to_allocate_bundle_to_reg returns Allocated
\* exactly when no entry of the PReg's map overlaps a range of the bundle
\* (the sweep with its re-seek agrees with the all-pairs check); on
\* Allocated the bundle's allocation is the PReg and every range of the
\* bundle is in the map under its own index.
C9_SweepAgreesWithNaiveCheck ==
    [][last'.op = "try" =>
         /\ last'.step = "Allocated" <=> NaiveOverlaps(cur.bundle, cur.hint_reg) = {}
         /\ last'.step = "Allocated" =>
               /\ bundles'[cur.bundle].allocation = cur.hint_reg
               /\ \A k \in 1..Len(bundles[cur.bundle].ranges) :
                     InMap(cur.hint_reg, bundles[cur.bundle].ranges[k])']_vars

\* The bundle was allocated after the sweep re-sought its iterator.
C9_Witness ==
    /\ last.op = "try" /\ last.step = "Allocated"
    /\ Cardinality(SkippedEntries(cur.bundle, cur.hint_reg)) >= SkipLimit

\* C10: with no cost limit, try_to_allocate_bundle_to_reg returns
\* ConflictWithFixed exactly when an entry that overlaps a range of the
\* bundle is a fixed reservation; with such an entry it returns neither
\* Conflict nor Allocated.
C10_FixedReservationWins ==
    [][last'.op = "try" =>
         LET fixed_overlap ==
                \E i \in NaiveOverlaps(cur.bundle, cur.hint_reg) :
                   pregs[cur.hint_reg][i].lr = Invalid
         IN /\ last'.step = "ConflictWithFixed" <=> fixed_overlap
            /\ fixed_overlap => last'.step \notin {"Conflict", "Allocated"}]_vars

\* ConflictWithFixed was returned although a bundle's entry overlaps too,
\* the fixed reservation lying past SkipLimit skipped entries.
C10_Witness ==
    /\ last.op = "try" /\ last.step = "ConflictWithFixed"
    /\ \E i \in NaiveOverlaps(cur.bundle, cur.hint_reg) :
          pregs[cur.hint_reg][i].lr # Invalid
    /\ Cardinality(SkippedEntries(cur.bundle, cur.hint_reg)) >= SkipLimit

\* ------------------------------------------------ probes of a short PReg map
\* try_to_allocate_bundle_to_reg and evict_bundle over every layout of a
\* short stretch of program points: each point of PReg 1 is free, a fixed
\* reservation, or held by bundle A or B (a maximal run of one label is one
\* entry of the map); the candidate bundle holds any non-empty set of the
\* points (a maximal run is one of its ranges) and is unallocated, or is
\* allocated to the first or the last PReg.
MapLen == 4
MapPoints == 0..(MapLen - 1)
Labels == {"free", "fixed", "A", "B"}

RECURSIVE runs_from(_, _)
runs_from(S, i) ==
    IF i >= MapLen THEN <<>>
    ELSE IF i \notin S THEN runs_from(S, i + 1)
    ELSE LET j == CHOOSE j \in (i + 1)..MapLen :
                     /\ \A k \in i..(j - 1) : k \in S
                     /\ j = MapLen \/ j \notin S
         IN <<[from |-> i, to |-> j]>> \o runs_from(S, j)

Labelled(occ, l) == {k \in MapPoints : occ[k] = l}

ShortInputs ==
    { inp \in [occ : [MapPoints -> Labels], mine : (SUBSET MapPoints) \ {{}},
               assigned : {Invalid, 1, NumPRegs}] :
        /\ Labelled(inp.occ, "B") # {} => Labelled(inp.occ, "A") # {}
        /\ inp.assigned = 1 => \A k \in inp.mine : inp.occ[k] = "free" }

\* Bundle 1 is the candidate, bundle 2 a newcomer of one point at the
\* candidate's start (unallocated, in the queue), bundles 3 and 4 are A and
\* B when they hold a point.
ShortArenas(inp) ==
    LET depth == [b \in 1..NumBlocks |-> 0]
        mine == runs_from(inp.mine, 0)
        runsA == runs_from(Labelled(inp.occ, "A"), 0)
        runsB == runs_from(Labelled(inp.occ, "B"), 0)
        runsF == runs_from(Labelled(inp.occ, "fixed"), 0)
        nb == 2 + (IF runsA # <<>> THEN 1 ELSE 0) + (IF runsB # <<>> THEN 1 ELSE 0)
        range_of(run, v) ==
            [NewLiveRange(run.from, run.to) EXCEPT
                !.vreg = v, !.bundle = v,
                !.uses = <<Use(run.from, "Use", Constraint("Reg"), depth)>>]
        rgs == [i \in 1..Len(mine) |-> range_of(mine[i], 1)]
               \o <<range_of([from |-> mine[1].from, to |-> mine[1].from + 1], 2)>>
               \o [i \in 1..Len(runsA) |-> range_of(runsA[i], 3)]
               \o [i \in 1..Len(runsB) |-> range_of(runsB[i], 4)]
        owned(v) ==
            LET idx == SelectSeq([i \in 1..Len(rgs) |-> i], LAMBDA i : rgs[i].vreg = v)
            IN [k \in 1..Len(idx) |-> Entry(rgs[idx[k]].from, rgs[idx[k]].to, idx[k])]
        starts == SelectSeq([i \in 1..MapLen |-> i - 1],
                            LAMBDA k : /\ inp.occ[k] # "free"
                                       /\ k = 0 \/ inp.occ[k - 1] # inp.occ[k])
        end_of(k) == CHOOSE j \in (k + 1)..MapLen :
                        /\ \A m \in k..(j - 1) : inp.occ[m] = inp.occ[k]
                        /\ j = MapLen \/ inp.occ[j] # inp.occ[k]
        lr_at(k) == IF inp.occ[k] = "fixed" THEN Invalid
                    ELSE CHOOSE i \in 1..Len(rgs) : rgs[i].from = k /\ rgs[i].vreg >= 3
        map1 == [i \in 1..Len(starts) |->
                    [from |-> starts[i], to |-> end_of(starts[i]), lr |-> lr_at(starts[i])]]
        allocation_of(v) == IF v = 1 THEN inp.assigned ELSE IF v = 2 THEN Invalid ELSE 1
    IN [ranges |-> rgs,
        bundles |-> [v \in 1..nb |->
                       [NewBundle EXCEPT
                           !.ranges = owned(v), !.spillset = v,
                           !.allocation = allocation_of(v)]],
        spillsets |-> [v \in 1..nb |->
                         [reg_hint |-> allocation_of(v),
                          required |-> FALSE, spill_bundle |-> Invalid]],
        vregs |-> [v \in 1..nb |-> owned(v)],
        pregs |-> [q \in PRegs |->
                     LET m == IF q = 1 THEN map1 ELSE <<>>
                     IN IF q = inp.assigned THEN insert_ranges(m, owned(1), 1) ELSE m],
        allocation_queue |-> <<>>,
        spilled_bundles |-> <<>>,
        approx_loop_depth |-> depth,
        debug_assertions |-> TRUE]

ShortInit ==
    \E inp \in ShortInputs :
      \E e0 \in {ShortArenas(inp)} :
      \E e1 \in {WithRangeProperties(e0)} :
      \E e \in {WithBundleProperties(e1)} :
         /\ ranges = e.ranges
         /\ bundles = e.bundles
         /\ spillsets = e.spillsets
         /\ vregs = e.vregs
         /\ pregs = e.pregs
         /\ allocation_queue = queue_insert(<<>>, 2, e.bundles[2].prio, Invalid)
         /\ spilled_bundles = e.spilled_bundles
         /\ approx_loop_depth = e.approx_loop_depth
         /\ debug_assertions = e.debug_assertions
         /\ pc = "try"
         /\ cur = [NoCur EXCEPT !.bundle = 1]
         /\ evict_list = <<>>
         /\ last = Did("init", Invalid, "", "", NoProbe, 0, 0, FALSE, Req("Any"), 0)
         /\ NoStackmaps

\* The cost limits a probe is called with: none, zero, and the cached
\* spill weight of each bundle in the arena and the weight just below it.
Limits(e) ==
    {None, 0}
    \cup {e.bundles[v].spill_weight : v \in 1..Len(e.bundles)}
    \cup {e.bundles[v].spill_weight - 1 : v \in {u \in 1..Len(e.bundles) :
                                                   e.bundles[u].spill_weight > 0}}

\* One call try_to_allocate_bundle_to_reg(cur.bundle, p, c) of the
\* unallocated candidate; `last` keeps the variant returned, the limit, the
\* conflict list and the conflict point, `cur` the PReg.
ProbeLimited ==
    /\ UNCHANGED stackmap_vars
    /\ pc = "try"
    /\ bundles[cur.bundle].allocation = Invalid
    /\ \E p \in PRegs :
       \E e \in {Env} :
       \E c \in Limits(e) :
       \E r \in {try_result(e, cur.bundle, p, c)} :
          /\ SetEnv(try_to_allocate_bundle_to_reg(e, cur.bundle, p, c))
          /\ last' = Did("probe", cur.bundle, r.tag, "",
                         [NoProbe EXCEPT !.evict_set = r.bundles, !.limit = c],
                         0, r.point, minimal_bundle(e, cur.bundle), cur.req,
                         bundle_spill_weight(e, cur.bundle))
          /\ cur' = [cur EXCEPT !.hint_reg = p]
    /\ pc' = "tried"
    /\ UNCHANGED evict_list

\* evict_bundle(cur.bundle), then possibly the newcomer taking a PReg q,
\* then try_to_allocate_bundle_to_reg(cur.bundle, p, None).  `last` keeps
\* the variant returned and the PReg the newcomer took in between (Invalid
\* when it took none), `cur` the PReg p.
EvictThenTry ==
    /\ UNCHANGED stackmap_vars
    /\ pc = "try"
    /\ \E p \in PRegs :
       \E q \in {Invalid} \cup PRegs :
       \E e0 \in {Env} :
       \E e1 \in {evict_bundle(e0, cur.bundle)} :
       \E e2 \in {IF q = Invalid THEN e1
                  ELSE try_to_allocate_bundle_to_reg(e1, 2, q, None)} :
       \E r \in {try_result(e2, cur.bundle, p, None)} :
          /\ SetEnv(try_to_allocate_bundle_to_reg(e2, cur.bundle, p, None))
          /\ last' = Did("evict_try", cur.bundle, r.tag, "",
                         [NoProbe EXCEPT !.evict_set = r.bundles,
                                         !.allocated = e2.bundles[2].allocation],
                         0, r.point, minimal_bundle(e0, cur.bundle), cur.req,
                         bundle_spill_weight(e0, cur.bundle))
          /\ cur' = [cur EXCEPT !.hint_reg = p]
    /\ pc' = "tried"
    /\ UNCHANGED evict_list

ShortNext == ProbeLimited \/ EvictThenTry

ShortSpec == ShortInit /\ [][ShortNext]_vars

\* The owner of entry i of a PReg's map (Invalid for a fixed reservation).
OwnerOf(p, i) == IF pregs[p][i].lr = Invalid THEN Invalid ELSE ranges[pregs[p][i].lr].bundle

\* The overlapping entries the sweep meets before it returns for a fixed
\* reservation: those that no overlapping fixed reservation precedes.
MetBeforeFixed(b, p) ==
    {i \in NaiveOverlaps(b, p) :
        \A j \in NaiveOverlaps(b, p) : j <= i => pregs[p][j].lr # Invalid}

\* C11: try_to_allocate_bundle_to_reg returns ConflictHighCost exactly
\* when a cost limit c is given and the cached spill weight of a
\* conflicting bundle the sweep meets exceeds c; it is never returned
\* without a limit.
C11_HighCostIffLimitExceeded ==
    [][last'.op = "probe" =>
         LET c == last'.probe.limit
             p == cur'.hint_reg
         IN /\ last'.step = "ConflictHighCost" <=>
                  /\ c # None
                  /\ \E i \in MetBeforeFixed(last'.bundle, p) :
                        bundles[OwnerOf(p, i)].spill_weight > c
            /\ c = None => last'.step # "ConflictHighCost"]_vars

\* ConflictHighCost was returned at the second conflicting bundle: the
\* first one met weighs no more than the limit.
C11_Witness ==
    /\ last.op = "probe" /\ last.step = "ConflictHighCost"
    /\ \E i \in MetBeforeFixed(last.bundle, cur.hint_reg) :
          bundles[OwnerOf(cur.hint_reg, i)].spill_weight <= last.probe.limit

\* The points max(r.from, e.from) of the pairs of a range r of the bundle
\* and an entry e of the PReg's map that overlap.
OverlapPoints(b, p) ==
    {Max(bundles[b].ranges[k].from, pregs[p][i].from) :
        <<k, i>> \in {x \in (1..Len(bundles[b].ranges)) \X (1..Len(pregs[p])) :
                        Overlap(pregs[p][x[2]], bundles[b].ranges[x[1]])}}

\* C12: the point of Conflict(bundles, first_point) is the least of
\* max(r.from, e.from) over all overlapping pairs of a range r of the
\* bundle and an entry e of the PReg's map.
C12_FirstPointIsEarliestOverlap ==
    [][last'.op = "probe" /\ last'.step = "Conflict" =>
         /\ last'.split_at \in OverlapPoints(last'.bundle, cur'.hint_reg)
         /\ \A x \in OverlapPoints(last'.bundle, cur'.hint_reg) :
               last'.split_at <= x]_vars

\* Conflict was returned with several overlapping pairs, the earliest
\* overlap starting inside an entry that begins before the bundle's range.
C12_Witness ==
    /\ last.op = "probe" /\ last.step = "Conflict"
    /\ Cardinality(OverlapPoints(last.bundle, cur.hint_reg)) > 1
    /\ \E i \in NaiveOverlaps(last.bundle, cur.hint_reg) :
          /\ pregs[cur.hint_reg][i].from < last.split_at
          /\ pregs[cur.hint_reg][i].to > last.split_at

\* The first entry of a bundle in the PReg's map that overlaps the bundle b.
FirstOverlapOf(owner, b, p) ==
    CHOOSE i \in NaiveOverlaps(b, p) :
       /\ OwnerOf(p, i) = owner
       /\ \A j \in NaiveOverlaps(b, p) : OwnerOf(p, j) = owner => i <= j

\* C13: the list of Conflict(bundles, _) has no duplicates, holds exactly
\* the owners of the entries of the PReg's map that overlap a range of the
\* bundle, and is in the order of their first overlapping entries.
C13_ConflictListExact ==
    [][last'.op = "probe" /\ last'.step = "Conflict" =>
         LET L == last'.probe.evict_set
             b == last'.bundle
             p == cur'.hint_reg
         IN /\ \A x, y \in 1..Len(L) : x # y => L[x] # L[y]
            /\ {L[x] : x \in 1..Len(L)} = {OwnerOf(p, i) : i \in NaiveOverlaps(b, p)}
            /\ \A x, y \in 1..Len(L) :
                  x < y => FirstOverlapOf(L[x], b, p) < FirstOverlapOf(L[y], b, p)]_vars

\* Conflict was returned with two bundles in the list, an entry of the
\* first one overlapping two ranges of the bundle.
C13_Witness ==
    /\ last.op = "probe" /\ last.step = "Conflict"
    /\ Len(last.probe.evict_set) = 2
    /\ \E i \in NaiveOverlaps(last.bundle, cur.hint_reg) :
          /\ OwnerOf(cur.hint_reg, i) = last.probe.evict_set[1]
          /\ Cardinality({k \in 1..Len(bundles[last.bundle].ranges) :
                             Overlap(pregs[cur.hint_reg][i],
                                     bundles[last.bundle].ranges[k])}) > 1

\* The entries of a PReg's map that are not ranges of the bundle.
EntriesOfOthers(p, b) ==
    SelectSeq(pregs[p], LAMBDA en : en.lr = Invalid \/ ranges[en.lr].bundle # b)

\* C14: evict_bundle(b) of a bundle allocated to PReg p leaves b without
\* allocation and p without an entry that overlaps a range of b, leaves
\* every other entry of every PReg's map (fixed reservations too) as it
\* was, and puts b in the allocation queue once, with its prio and an
\* invalid register hint.
C14_EvictFrame ==
    [][last'.op = "evict" /\ bundles[last'.bundle].allocation # Invalid =>
         LET b == last'.bundle
             p == bundles[b].allocation
             Q == allocation_queue'
         IN /\ bundles'[b].allocation = Invalid
            /\ \A i \in 1..Len(pregs'[p]) : \A k \in 1..Len(bundles'[b].ranges) :
                  ~Overlap(pregs'[p][i], bundles'[b].ranges[k])
            /\ \A q \in PRegs : pregs'[q] = EntriesOfOthers(q, b)
            /\ \A q \in PRegs \ {p} : pregs'[q] = pregs[q]
            /\ Cardinality({i \in 1..Len(Q) : Q[i].bundle = b}) = 1
            /\ \A i \in 1..Len(Q) :
                  Q[i].bundle = b => Q[i].prio = bundles'[b].prio /\ Q[i].reg_hint = Invalid
            /\ bundles' = [bundles EXCEPT ![b].allocation = Invalid]
            /\ ranges' = ranges]_vars

\* A bundle was evicted from a PReg that keeps a fixed reservation and an
\* entry of another bundle.
C14_Witness ==
    /\ last.op = "evict"
    /\ \E i \in 1..Len(allocation_queue) :
          allocation_queue[i].bundle = last.bundle
    /\ \E p \in PRegs :
          /\ \E i \in 1..Len(pregs[p]) : pregs[p][i].lr = Invalid
          /\ \E i \in 1..Len(pregs[p]) : pregs[p][i].lr # Invalid
          /\ \A i \in 1..Len(pregs[p]) : \A k \in 1..Len(bundles[last.bundle].ranges) :
                ~Overlap(pregs[p][i], bundles[last.bundle].ranges[k])

\* C15 as stated: for every bundle b (here: every allocated one) and PReg
\* p, evict_bundle(b) followed by try_to_allocate_bundle_to_reg(b, p, None)
\* yields Allocated(p) exactly when b had been assigned to p before the
\* eviction and no conflicting entry was added to p in between.
C15_AllocatedIffWasAssigned ==
    [][last'.op = "evict_try" /\ bundles[last'.bundle].allocation # Invalid =>
         LET b == last'.bundle
             p == cur'.hint_reg
         IN last'.step = "Allocated" <=>
               /\ bundles[b].allocation = p
               /\ last'.probe.allocated # p]_vars

\* C15: evict_bundle(b) followed by try_to_allocate_bundle_to_reg(b, p,
\* None) yields Allocated(p) exactly when no entry of another owner in the
\* map of p overlaps a range of b and none was added in between; so it does
\* when b had been assigned to p and nothing was added, and then the map of
\* p is as before the eviction; and so it does for a PReg b had not been
\* assigned to whose map is free over the ranges of b.
C15_EvictThenTry ==
    [][last'.op = "evict_try" =>
         LET b == last'.bundle
             p == cur'.hint_reg
             added == last'.probe.allocated = p
             free == \A i \in NaiveOverlaps(b, p) : OwnerOf(p, i) = b
         IN /\ last'.step = "Allocated" <=> free /\ ~added
            /\ bundles[b].allocation = p => free
            /\ bundles[b].allocation = p /\ ~added =>
                  /\ last'.step = "Allocated"
                  /\ pregs'[p] = pregs[p]
                  /\ bundles'[b].allocation = p]_vars

\* The bundle, of two ranges, is back on a PReg that holds entries of
\* others, the newcomer having taken no PReg in between.
C15_Witness ==
    /\ last.op = "evict_try" /\ last.step = "Allocated"
    /\ last.probe.allocated = Invalid
    /\ Len(bundles[last.bundle].ranges) > 1
    /\ \E i \in 1..Len(pregs[cur.hint_reg]) :
          OwnerOf(cur.hint_reg, i) # last.bundle

\* ------------------------------------------- recompute_bundle_properties
\* recompute_bundle_properties on its own: the arenas as merging leaves
\* them, the cached properties of the bundles not yet computed; each call
\* recomputes one bundle.
PropsInit ==
    \E prog \in Shapes \X Shapes, res \in Reservations, depth \in Depths :
      \E part \in Partitions(prog) :
        \E e0 \in {InitArenas(prog, part, res, depth)} :
        \E e \in {WithRangeProperties(e0)} :
           /\ ranges = e.ranges
           /\ bundles = e.bundles
           /\ spillsets = e.spillsets
           /\ vregs = e.vregs
           /\ pregs = e.pregs
           /\ allocation_queue = e.allocation_queue
           /\ spilled_bundles = e.spilled_bundles
           /\ approx_loop_depth = e.approx_loop_depth
           /\ debug_assertions = e.debug_assertions
           /\ pc = "props"
           /\ cur = NoCur
           /\ evict_list = <<>>
           /\ last = Did("init", Invalid, "", "", NoProbe, 0, 0, FALSE, Req("Any"), 0)
           /\ NoStackmaps

\* One call recompute_bundle_properties(b); `last` keeps the bundle and the
\* number of calls on it in a row.
RecomputeProperties ==
    /\ UNCHANGED stackmap_vars
    /\ pc = "props"
    /\ \E b \in 1..Len(bundles) :
       \E e \in {Env} :
       \E r \in {recompute_bundle_properties(e, b)} :
          /\ bundles' = [bundles EXCEPT ![b] = r]
          /\ last' = Did("recompute", b, "", "", NoProbe,
                         IF last.op = "recompute" /\ last.bundle = b
                         THEN Min(last.attempts + 1, 2) ELSE 1,
                         0, r.minimal, cur.req, r.spill_weight)
    /\ UNCHANGED <<ranges, spillsets, vregs, pregs, allocation_queue, spilled_bundles,
                   approx_loop_depth, debug_assertions, pc, cur, evict_list>>

PropsSpec == PropsInit /\ [][RecomputeProperties]_vars

\* C16: recompute_bundle_properties is idempotent: a second call in a row
\* on a bundle leaves prio, cached spill weight and the minimal, fixed and
\* stack flags as the first call left them.
C16_RecomputeIdempotent ==
    [][last'.op = "recompute" /\ last'.attempts = 2 =>
         LET r == bundles'[last'.bundle]
             b == bundles[last'.bundle]
         IN /\ r.prio = b.prio /\ r.spill_weight = b.spill_weight
            /\ r.minimal = b.minimal /\ r.fixed = b.fixed /\ r.stack = b.stack]_vars

\* A bundle that is not minimal was recomputed twice in a row; its prio,
\* its weight and one of its flags are not the values it was created with.
C16_Witness ==
    /\ last.op = "recompute" /\ last.attempts = 2
    /\ ~bundles[last.bundle].minimal
    /\ bundles[last.bundle].prio > 0
    /\ bundles[last.bundle].spill_weight > 0
    /\ bundles[last.bundle].fixed \/ bundles[last.bundle].stack

\* ------------------------------------------------------ claims on splits
\* A step that ran split_and_requeue_bundle on the bundle last'.bundle with
\* the raw split point last'.split_at.
SplitStep == last'.step \in {"split", "conflict_split"}

\* The uses of the bundle that lie before the normalized split point: the
\* uses of the prefix that is split off.
PrefixUses(e, b, raw) ==
    LET us == bundle_uses(e, e.bundles[b].ranges, 1)
    IN {i \in 1..Len(us) : us[i].pos < normalized_split_point(e, b, raw)}

Boundaries(rs) == {rs[i].from : i \in 1..Len(rs)} \cup {rs[i].to : i \in 1..Len(rs)}

\* C18: the normalized split point of split_and_requeue_bundle is a Before
\* point, and so is every range boundary that a split creates: none lies
\* between the Before and the After point of one instruction.
C18_SplitsBeforeInstructions ==
    [][SplitStep =>
         /\ pos(normalized_split_point(Env, last'.bundle, last'.split_at)) = Before
         /\ \A x \in Boundaries(ranges') \ Boundaries(ranges) : pos(x) = Before]_vars

\* A split asked for at an After point cut a range at the Before point of
\* the next instruction.
C18_Witness ==
    /\ last.step \in {"split", "conflict_split"}
    /\ pos(last.split_at) = After
    /\ \E i, j \in 1..Len(ranges) :
          /\ ranges[i].to = next(last.split_at)
          /\ ranges[j].from = next(last.split_at)
          /\ ranges[i].vreg = ranges[j].vreg

\* C19: for every call of split_and_requeue_bundle whose raw split point
\* lies in [bundle_start, bundle_end), the normalized split point lies
\* strictly between bundle_start and bundle_end.
C19_NormalizedStrictlyInside ==
    [][SplitStep =>
         LET b == last'.bundle
             raw == last'.split_at
             s == normalized_split_point(Env, b, raw)
         IN bundle_start_of(Env, b) <= raw /\ raw < bundle_end_of(Env, b) =>
               bundle_start_of(Env, b) < s /\ s < bundle_end_of(Env, b)]_vars

\* ------------------------------------------------- ranges of implicit defs
\* process_bundles on the inputs in which every range has StartsAtDef: a
\* range without a def at its front starts at an implicit def (the flag
\* "may be set by a progmove as well", process.rs:362-367).  At least one
\* range is of that kind; no loops.
FlagInit ==
    \E prog \in {pr \in Shapes \X Shapes : \E v \in 1..2 : pr[v].first # "def"},
       res \in Reservations, depth \in {[b \in 1..NumBlocks |-> 0]} :
      \E part \in Partitions(prog) :
        \E e0 \in {InitArenas(prog, part, res, depth)} :
        \E e1 \in {WithRangeProperties(e0)} :
        \E e2 \in {WithBundleProperties(e1)} :
        \E e \in {Queued(e2)} :
           /\ ranges = [r \in 1..Len(e.ranges) |->
                          [e.ranges[r] EXCEPT !.starts_at_def = TRUE]]
           /\ bundles = e.bundles
           /\ spillsets = e.spillsets
           /\ vregs = e.vregs
           /\ pregs = e.pregs
           /\ allocation_queue = e.allocation_queue
           /\ spilled_bundles = e.spilled_bundles
           /\ approx_loop_depth = e.approx_loop_depth
           /\ debug_assertions = e.debug_assertions
           /\ pc = "queue"
           /\ cur = NoCur
           /\ evict_list = <<>>
           /\ last = Did("init", Invalid, "", "", NoProbe, 0, 0, FALSE, Req("Any"), 0)
           /\ NoStackmaps

FlagSpec == FlagInit /\ [][Next]_vars

\* C20: the StartsAtDef flag of a live range is monotonic: a range that
\* has it keeps it over every step, no operation clears it; and a range
\* whose first use is a def has it (recompute_range_properties sets it).
C20_StartsAtDefMonotonic ==
    [][/\ \A r \in 1..Len(ranges) : ranges[r].starts_at_def => ranges'[r].starts_at_def
       /\ \A r \in 1..Len(ranges') :
             Len(ranges'[r].uses) > 0 /\ ranges'[r].uses[1].kind = "Def"
                => ranges'[r].starts_at_def]_vars

\* A range that starts at an implicit def was cut by a split and keeps the
\* flag; the range created behind it does not have it.
C20_Witness ==
    /\ last.step \in {"split", "conflict_split"}
    /\ \E r, j \in 1..Len(ranges) :
          /\ ranges[r].starts_at_def
          /\ Len(ranges[r].uses) = 0 \/ ranges[r].uses[1].kind # "Def"
          /\ ranges[j].from = ranges[r].to
          /\ ranges[j].vreg = ranges[r].vreg
          /\ ~ranges[j].starts_at_def

\* ------------------------------------------------ splits of a long bundle
\* split_and_requeue_bundle on its own, over a program of SplitInsts
\* instructions: one bundle of one range over the whole program, or of two
\* ranges (of two vregs) with instruction 2 between them, with a register
\* use at one to MaxUses instructions (all early or all late); the first
\* range may start at an implicit def.  The conflicts that make process_bundle split are left
\* out: a queued bundle that is not minimal is split at any point of it.
SplitInsts == 5
MaxUses == 3
SplitPoints == 0..(2 * SplitInsts - 1)

SplitInputs ==
    { inp \in [insts : SUBSET (0..(SplitInsts - 1)), late : BOOLEAN,
               flagged : BOOLEAN, two : BOOLEAN] :
        /\ Cardinality(inp.insts) \in 1..MaxUses
        /\ inp.two => 2 \notin inp.insts }

\* The use points: the Before points of the chosen instructions, or their
\* After points.
use_points(inp) == {2 * i + (IF inp.late THEN After ELSE Before) : i \in inp.insts}

\* The uses at the points of S within [from, to), in ascending order.
RECURSIVE uses_at(_, _, _)
uses_at(S, from, to) ==
    IF from >= to THEN <<>>
    ELSE (IF from \in S
          THEN <<[pos |-> from, kind |-> "Use", constraint |-> Constraint("Reg"),
                  weight |-> weight_bits(spill_weight_from_constraint(
                                 Constraint("Reg"), 0, FALSE))]>>
          ELSE <<>>) \o uses_at(S, from + 1, to)

SplitArenas(inp) ==
    LET end == 2 * SplitInsts
        spans == IF inp.two THEN <<[from |-> 0, to |-> 4], [from |-> 6, to |-> end]>>
                 ELSE <<[from |-> 0, to |-> end]>>
    IN [ranges |-> [v \in 1..Len(spans) |->
                      [NewLiveRange(spans[v].from, spans[v].to) EXCEPT
                          !.vreg = v, !.bundle = 1,
                          !.uses = uses_at(use_points(inp), spans[v].from, spans[v].to),
                          !.starts_at_def = inp.flagged /\ v = 1]],
        bundles |-> <<[NewBundle EXCEPT
                          !.ranges = [v \in 1..Len(spans) |->
                                        Entry(spans[v].from, spans[v].to, v)],
                          !.spillset = 1]>>,
        spillsets |-> <<[reg_hint |-> Invalid, required |-> FALSE,
                         spill_bundle |-> Invalid]>>,
        vregs |-> [v \in 1..Len(spans) |-> <<Entry(spans[v].from, spans[v].to, v)>>],
        pregs |-> [q \in PRegs |-> <<>>],
        allocation_queue |-> <<>>,
        spilled_bundles |-> <<>>,
        approx_loop_depth |-> [b \in 1..NumBlocks |-> 0],
        debug_assertions |-> TRUE]

SplitInit ==
    \E inp \in SplitInputs :
      \E e0 \in {SplitArenas(inp)} :
      \E e1 \in {WithRangeProperties(e0)} :
      \E e2 \in {WithBundleProperties(e1)} :
      \E e \in {Queued(e2)} :
         /\ ranges = e.ranges
         /\ bundles = e.bundles
         /\ spillsets = e.spillsets
         /\ vregs = e.vregs
         /\ pregs = e.pregs
         /\ allocation_queue = e.allocation_queue
         /\ spilled_bundles = e.spilled_bundles
         /\ approx_loop_depth = e.approx_loop_depth
         /\ debug_assertions = e.debug_assertions
         /\ pc = "split"
         /\ cur = NoCur
         /\ evict_list = <<>>
         /\ last = Did("init", Invalid, "", "", NoProbe, 0, 0, FALSE, Req("Any"), 0)
         /\ NoStackmaps

\* A queued bundle is popped and split_and_requeue_bundle(bundle, raw, hint)
\* is called on it, its assertions holding; `last` keeps the bundle and
\* the raw split point.
SplitAny ==
    /\ UNCHANGED stackmap_vars
    /\ pc = "split"
    /\ \E i \in 1..Len(allocation_queue) :
       \E bundle \in {allocation_queue[i].bundle} :
       \E popped \in {[Env EXCEPT !.allocation_queue = queue_remove(@, i)]} :
       \E raw \in SplitPoints :
          /\ ~minimal_bundle(popped, bundle)
          /\ bundle_uses(popped, popped.bundles[bundle].ranges, 1) # <<>>
          /\ split_assert(popped, bundle, raw) = ""
          /\ SetEnv(split_and_requeue_bundle(popped, bundle, raw,
                                             allocation_queue[i].reg_hint))
          /\ last' = Did("split_any", bundle, "split", "", NoProbe, 0, raw,
                         FALSE, Req("Register"), bundle_spill_weight(popped, bundle))
    /\ UNCHANGED <<pc, cur, evict_list>>

SplitSpec == SplitInit /\ [][SplitAny]_vars

\* ------------------------------------------ probe rounds over held PRegs
\* process_bundles from a state in which every PReg is free, holds a
\* one-point fixed reservation, or is held by one allocated bundle of one
\* range (one point long, or from its start to the end of the stretch),
\* with or without a fixed reservation right after it; the candidate
\* bundle covers the whole stretch of MapLen points and is alone in the
\* allocation queue.  A one-point bundle is minimal and so far heavier
\* than a long one: a probe round meets PRegs above its cost limit.
HeldLayouts ==
    { l \in [kind : {"free", "fixed", "held"}, from : MapPoints,
             long : BOOLEAN, fixed_after : BOOLEAN] :
        /\ l.kind = "free" => l.from = 0
        /\ l.kind # "held" => ~l.long /\ ~l.fixed_after
        /\ l.long => l.from + 1 < MapLen /\ ~l.fixed_after
        /\ l.fixed_after => l.from + 1 < MapLen }

RoundArenas(lay, depth) ==
    LET held == SelectSeq([q \in 1..NumPRegs |-> q], LAMBDA q : lay[q].kind = "held")
        to_of(l) == IF l.long THEN MapLen ELSE l.from + 1
        range_of(from, to, v) ==
            [NewLiveRange(from, to) EXCEPT
                !.vreg = v, !.bundle = v,
                !.uses = <<Use(from, "Use", Constraint("Reg"), depth)>>]
        rgs == <<range_of(0, MapLen, 1)>>
               \o [i \in 1..Len(held) |->
                     range_of(lay[held[i]].from, to_of(lay[held[i]]), 1 + i)]
        owned(v) == <<Entry(rgs[v].from, rgs[v].to, v)>>
        allocation_of(v) == IF v = 1 THEN Invalid ELSE held[v - 1]
        occupant(q) == 1 + (CHOOSE i \in 1..Len(held) : held[i] = q)
        map_of(q) ==
            LET l == lay[q]
            IN CASE l.kind = "free" -> <<>>
                 [] l.kind = "fixed" ->
                      <<[from |-> l.from, to |-> l.from + 1, lr |-> Invalid]>>
                 [] OTHER ->
                      <<[from |-> l.from, to |-> to_of(l), lr |-> occupant(q)]>>
                      \o (IF l.fixed_after
                          THEN <<[from |-> to_of(l), to |-> to_of(l) + 1, lr |-> Invalid]>>
                          ELSE <<>>)
    IN [ranges |-> rgs,
        bundles |-> [v \in 1..Len(rgs) |->
                       [NewBundle EXCEPT
                           !.ranges = owned(v), !.spillset = v,
                           !.allocation = allocation_of(v)]],
        spillsets |-> [v \in 1..Len(rgs) |->
                         [reg_hint |-> allocation_of(v),
                          required |-> FALSE, spill_bundle |-> Invalid]],
        vregs |-> [v \in 1..Len(rgs) |-> owned(v)],
        pregs |-> [q \in PRegs |-> map_of(q)],
        allocation_queue |-> <<>>,
        spilled_bundles |-> <<>>,
        approx_loop_depth |-> depth,
        debug_assertions |-> TRUE]

RoundInit ==
    \E lay \in [PRegs -> HeldLayouts], depth \in Depths :
      \E e0 \in {RoundArenas(lay, depth)} :
      \E e1 \in {WithRangeProperties(e0)} :
      \E e \in {WithBundleProperties(e1)} :
         /\ ranges = e.ranges
         /\ bundles = e.bundles
         /\ spillsets = e.spillsets
         /\ vregs = e.vregs
         /\ pregs = e.pregs
         /\ allocation_queue = queue_insert(<<>>, 1, e.bundles[1].prio, Invalid)
         /\ spilled_bundles = e.spilled_bundles
         /\ approx_loop_depth = e.approx_loop_depth
         /\ debug_assertions = e.debug_assertions
         /\ pc = "queue"
         /\ cur = NoCur
         /\ evict_list = <<>>
         /\ last = Did("init", Invalid, "", "", NoProbe, 0, 0, FALSE, Req("Any"), 0)
         /\ NoStackmaps

RoundSpec == RoundInit /\ [][Next]_vars

\* -------------------------------------------------------- compute_stackmaps
\* An Allocation: a register or a stack slot.
RegAlloc(p) == [kind |-> "reg", index |-> p]
StackAlloc(slot) == [kind |-> "stack", index |-> slot]
as_stack(alloc) == IF alloc.kind = "stack" THEN alloc.index ELSE None

\* The safepoints of a VReg as ProgPoints, sorted.
RECURSIVE sorted_safepoints(_)
sorted_safepoints(S) ==
    IF S = {} THEN <<>>
    ELSE LET m == CHOOSE i \in S : \A j \in S : i <= j
         IN <<before(m)>> \o sorted_safepoints(S \ {m})

\* The order of (ProgPoint, SpillSlot) tuples.
SlotLess(a, b) == a[1] < b[1] \/ (a[1] = b[1] /\ a[2] < b[2])

\* (A sort that leaves the list in push order.)
sort_unstable_none(slots) == slots
RECURSIVE sort_unstable(_)
sort_unstable(slots) ==
    IF slots = <<>> THEN <<>>
    ELSE LET rest == sort_unstable(Tail(slots))
             k == Cardinality({i \in 1..Len(rest) : SlotLess(rest[i], Head(slots))})
         IN SubSeq(rest, 1, k) \o <<Head(slots)>> \o SubSeq(rest, k + 1, Len(rest))

NotInSpillslot == "Reference-typed value not in spillslot at safepoint"

RECURSIVE range_safepoints(_, _, _, _, _)
\* (A walk that also skips the safepoint at the start of the range.)
range_safepoints_after_start(safepoints, safepoint_idx, range, alloc, out) ==
    IF safepoint_idx <= Len(safepoints) /\ safepoints[safepoint_idx] < range.to
    THEN IF safepoints[safepoint_idx] <= range.from
         THEN range_safepoints(safepoints, safepoint_idx + 1, range, alloc, out)
         ELSE IF as_stack(alloc) = None
         THEN [idx |-> safepoint_idx, out |-> out, halt |-> NotInSpillslot]
         ELSE range_safepoints(safepoints, safepoint_idx + 1, range, alloc,
                               Append(out, <<safepoints[safepoint_idx], as_stack(alloc)>>))
    ELSE [idx |-> safepoint_idx, out |-> out, halt |-> ""]

\* The inner loop over one range: the safepoints before the range's end,
\* from safepoint_idx on (1-based); those before its start are passed
\* over, the others pushed with the range's slot.
range_safepoints(safepoints, safepoint_idx, range, alloc, out) ==
    IF safepoint_idx <= Len(safepoints) /\ safepoints[safepoint_idx] < range.to
    THEN IF safepoints[safepoint_idx] < range.from
         THEN range_safepoints(safepoints, safepoint_idx + 1, range, alloc, out)
         ELSE IF as_stack(alloc) = None
         THEN [idx |-> safepoint_idx, out |-> out, halt |-> NotInSpillslot]
         ELSE range_safepoints(safepoints, safepoint_idx + 1, range, alloc,
                               Append(out, <<safepoints[safepoint_idx], as_stack(alloc)>>))
    ELSE [idx |-> safepoint_idx, out |-> out, halt |-> ""]

\* The loop over the range list of one VReg, from entry i on.
RECURSIVE vreg_safepoints(_, _, _, _, _, _)
vreg_safepoints(list, i, safepoints, safepoint_idx, allocs, out) ==
    IF i > Len(list) THEN [out |-> out, halt |-> ""]
    ELSE Let(range_safepoints(safepoints, safepoint_idx,
                              [from |-> list[i].from, to |-> list[i].to],
                              allocs[list[i].index], out), LAMBDA r :
         IF r.halt # "" THEN [out |-> r.out, halt |-> r.halt]
         ELSE vreg_safepoints(list, i + 1, safepoints, r.idx, allocs, r.out))

\* The loop over the reference-typed VRegs, from position k on.
RECURSIVE reftype_safepoints(_, _, _, _, _, _)
reftype_safepoints(rv, k, spv, lists, allocs, out) ==
    IF k > Len(rv) THEN [out |-> out, halt |-> ""]
    ELSE Let(vreg_safepoints(lists[rv[k]], 1, sorted_safepoints(spv[rv[k]]), 1,
                             allocs, out), LAMBDA r :
         IF r.halt # "" THEN r
         ELSE reftype_safepoints(rv, k + 1, spv, lists, allocs, r.out))

\* compute_stackmaps: safepoint_slots when it returns, or the message it
\* halts with and the list as far as it was pushed.
compute_stackmaps(rv, spv, lists, allocs, slots) ==
    IF rv = <<>> THEN [out |-> slots, halt |-> ""]
    ELSE Let(reftype_safepoints(rv, 1, spv, lists, allocs, slots), LAMBDA r :
         IF r.halt # "" THEN r
         ELSE [out |-> sort_unstable(r.out), halt |-> ""])

\* The inputs: VReg 1 has no range, one, or two disjoint ones in either
\* order, each in a register or in stack slot 1, and any set of safepoint
\* instructions; VReg 2 is live over the whole program in stack slot 1 or
\* 2, with a safepoint at every instruction; none, one or both of them are
\* reference-typed.
Insts == 0..(NumInsts - 1)
Spans == {sp \in [from : 0..(2 * NumInsts), to : 0..(2 * NumInsts)] : sp.from < sp.to}
SpanLists ==
    {<<>>} \cup {<<a>> : a \in Spans}
    \cup {<<a, b>> : a, b \in Spans}

DisjointSpans(l) == Len(l) < 2 \/ l[1].to <= l[2].from \/ l[2].to <= l[1].from

StackInputs ==
    { inp \in [list : {l \in SpanLists : DisjointSpans(l)},
               in_slot : [1..2 -> BOOLEAN],
               safepoints : SUBSET Insts,
               slot2 : 1..2,
               rv : {<<>>, <<1>>, <<1, 2>>, <<2, 1>>}] :
        \A i \in 1..2 : i > Len(inp.list) => inp.in_slot[i] }

StackInit ==
    \E inp \in StackInputs :
       LET n == Len(inp.list)
           whole == [from |-> 0, to |-> 2 * NumInsts]
       IN /\ ranges = [i \in 1..(n + 1) |->
                         IF i <= n
                         THEN [NewLiveRange(inp.list[i].from, inp.list[i].to) EXCEPT !.vreg = 1]
                         ELSE [NewLiveRange(whole.from, whole.to) EXCEPT !.vreg = 2]]
          /\ vregs = << [i \in 1..n |-> Entry(inp.list[i].from, inp.list[i].to, i)],
                        <<Entry(whole.from, whole.to, n + 1)>> >>
          /\ range_allocation = [i \in 1..(n + 1) |->
                                   IF i <= n
                                   THEN IF inp.in_slot[i] THEN StackAlloc(1) ELSE RegAlloc(1)
                                   ELSE StackAlloc(inp.slot2)]
          /\ safepoints_per_vreg = <<inp.safepoints, Insts>>
          /\ reftype_vregs = inp.rv
          /\ safepoint_slots = <<>>
          /\ bundles = <<>>
          /\ spillsets = <<>>
          /\ pregs = [q \in PRegs |-> <<>>]
          /\ allocation_queue = <<>>
          /\ spilled_bundles = <<>>
          /\ approx_loop_depth = [b \in 1..NumBlocks |-> 0]
          /\ debug_assertions = TRUE
          /\ pc = "stackmaps"
          /\ cur = NoCur
          /\ evict_list = <<>>
          /\ last = Did("init", Invalid, "", "", NoProbe, 0, 0, FALSE, Req("Any"), 0)

\* compute_stackmaps runs: it returns with safepoint_slots sorted, or halts.
ComputeStackmaps ==
    /\ pc = "stackmaps"
    /\ \E r \in {compute_stackmaps(reftype_vregs, safepoints_per_vreg, vregs,
                                   range_allocation, safepoint_slots)} :
          /\ safepoint_slots' = r.out
          /\ pc' = IF r.halt # "" THEN "panic" ELSE "returned"
          /\ last' = Did("compute_stackmaps", Invalid,
                         IF r.halt # "" THEN "panic" ELSE "returned", r.halt,
                         NoProbe, 0, 0, FALSE, Req("Any"), 0)
    /\ UNCHANGED <<ranges, bundles, spillsets, vregs, pregs, allocation_queue,
                   spilled_bundles, approx_loop_depth, debug_assertions, cur,
                   evict_list, reftype_vregs, safepoints_per_vreg, range_allocation>>

StackSpec == StackInit /\ [][ComputeStackmaps]_vars

\* ----------------------------------------------- claims on range surgery
\* C21: in every state, the uses of every live range lie inside it: the
\* first at or after range.from, the last before range.to.
C21_UsesInsideRange ==
    \A r \in 1..Len(ranges) :
       Len(ranges[r].uses) > 0 =>
          /\ ranges[r].uses[1].pos >= ranges[r].from
          /\ Last(ranges[r].uses).pos < ranges[r].to

\* A split has cut a range and trimmed both halves, each half keeping uses.
C21_Witness ==
    /\ last.op = "split_any"
    /\ \E r1, r2 \in 1..Len(ranges) :
          /\ r1 # r2
          /\ ranges[r1].vreg = ranges[r2].vreg
          /\ ranges[r1].uses # <<>> /\ ranges[r2].uses # <<>>
          /\ ranges[r1].to = before(inst(Last(ranges[r1].uses).pos) + 1)
          /\ ranges[r2].from = before(inst(ranges[r2].uses[1].pos))
          /\ \E t1, t2 \in 1..Len(ranges) :
                /\ ranges[t1].uses = <<>> /\ ranges[t2].uses = <<>>
                /\ ranges[t1].from = ranges[r1].to
                /\ ranges[t2].to = ranges[r2].from
                /\ t1 # t2

\* The range list of a bundle is sorted by `from` and pairwise disjoint.
SortedDisjoint(rs) ==
    \A i, j \in 1..Len(rs) : i < j => rs[i].to <= rs[j].from

\* C22: in every state, the range list of every bundle, spill bundles
\* included, is pairwise non-overlapping and sorted by ascending from.
C22_BundleRangesSorted ==
    \A b \in Bundles : SortedDisjoint(bundles[b].ranges)

SpillBundles == {spillsets[s].spill_bundle : s \in 1..Len(spillsets)} \ {Invalid}

PairwiseDisjoint(rs) ==
    \A i, j \in 1..Len(rs) :
       i # j => rs[i].to <= rs[j].from \/ rs[j].to <= rs[i].from

\* C22 (amended): the range list of every bundle that is not a spill
\* bundle is sorted by ascending from and pairwise non-overlapping; the
\* range list of a spill bundle is pairwise non-overlapping, in the order
\* in which the ranges were pushed.
C22_SortedExceptSpill ==
    \A b \in Bundles :
       IF b \in SpillBundles
       THEN PairwiseDisjoint(bundles[b].ranges)
       ELSE SortedDisjoint(bundles[b].ranges)

\* A split has left a spill bundle with a list out of order next to a
\* bundle of two ranges.
C22_Witness ==
    /\ last.op = "split_any"
    /\ \E b \in SpillBundles : ~SortedDisjoint(bundles[b].ranges)
    /\ \E b \in Bundles \ SpillBundles : Len(bundles[b].ranges) >= 2

\* The spill bundle of a bundle's spillset after the step, Invalid when none.
SpillOf(b) == spillsets'[bundles'[b].spillset].spill_bundle

RECURSIVE UsesOfVReg(_, _, _)
UsesOfVReg(rgs, v, i) ==
    IF i > Len(rgs) THEN <<>>
    ELSE (IF rgs[i].vreg = v THEN rgs[i].uses ELSE <<>>) \o UsesOfVReg(rgs, v, i + 1)

Occurrences(us, u) == Cardinality({i \in 1..Len(us) : us[i] = u})

Ascending(us) == \A i, j \in 1..Len(us) : i < j => us[i].pos <= us[j].pos

\* C29: a split neither loses nor duplicates uses: every use is held as
\* often by the ranges of its VReg after the split as before; when a
\* range is cut at the split point, its uses at or after the point are
\* the uses of the new range and those before it the uses of the old
\* range, in ascending order.
C29_UsesPartitioned ==
    [][SplitStep =>
        LET old == last'.bundle
            split_at == normalized_split_point(Env, old, last'.split_at)
            new_lr == Len(ranges) + 1
        IN /\ \A v \in 0..Len(vregs) :
                 LET was == UsesOfVReg(ranges, v, 1)
                     is == UsesOfVReg(ranges', v, 1)
                 IN /\ Len(was) = Len(is)
                    /\ \A i \in 1..Len(was) :
                          Occurrences(is, was[i]) = Occurrences(was, was[i])
           /\ \A k \in 1..Len(bundles[old].ranges) :
                 LET orig_lr == bundles[old].ranges[k].index
                     us == ranges[orig_lr].uses
                 IN ranges[orig_lr].from < split_at /\ split_at < ranges[orig_lr].to =>
                      /\ Len(ranges') >= new_lr
                      /\ ranges'[new_lr].vreg = ranges[orig_lr].vreg
                      /\ ranges'[new_lr].uses = SelectSeq(us, LAMBDA u : u.pos >= split_at)
                      /\ ranges'[orig_lr].uses = SelectSeq(us, LAMBDA u : u.pos < split_at)
                      /\ Ascending(ranges'[new_lr].uses)
                      /\ Ascending(ranges'[orig_lr].uses)
    ]_vars

\* A split has cut a range of three uses, leaving uses on both sides.
C29_Witness ==
    /\ last.op = "split_any"
    /\ \E r1, r2 \in 1..Len(ranges) :
          /\ r1 < r2
          /\ ranges[r1].vreg = ranges[r2].vreg
          /\ ranges[r1].bundle = last.bundle
          /\ ranges[r1].to <= ranges[r2].from
          /\ ranges[r1].uses # <<>> /\ ranges[r2].uses # <<>>
          /\ Len(ranges[r1].uses) + Len(ranges[r2].uses) >= MaxUses

\* The program points covered by the ranges a VReg's list names, by their
\* bounds in the range arena.
Covered(rgs, list) ==
    UNION {rgs[list[i].index].from .. (rgs[list[i].index].to - 1) : i \in 1..Len(list)}

\* C30: a split preserves liveness coverage: the ranges of every VReg
\* (those its list names, with their bounds in the range arena, whichever
\* bundle holds them) cover the same program points after the split as
\* before, and are pairwise disjoint.
C30_CoveragePreserved ==
    [][SplitStep =>
        \A v \in 1..Len(vregs) :
           /\ Covered(ranges', vregs'[v]) = Covered(ranges, vregs[v])
           /\ \A i, j \in 1..Len(vregs'[v]) :
                 i < j =>
                   LET a == ranges'[vregs'[v][i].index]
                       b == ranges'[vregs'[v][j].index]
                   IN /\ vregs'[v][i].index # vregs'[v][j].index
                      /\ a.to <= b.from \/ b.to <= a.from
    ]_vars

\* A split has left a VReg with ranges in the old bundle, the new bundle
\* and the spill bundle.
C30_Witness ==
    /\ last.op = "split_any"
    /\ \E v \in 1..Len(vregs) :
       \E s \in SpillBundles :
       \E i, j, k \in 1..Len(vregs[v]) :
          /\ ranges[vregs[v][i].index].bundle = last.bundle
          /\ ranges[vregs[v][j].index].bundle = s
          /\ ranges[vregs[v][k].index].bundle \notin {s, last.bundle, Invalid}
          /\ ranges[vregs[v][j].index].from > ranges[vregs[v][i].index].from
          /\ ranges[vregs[v][j].index].to < ranges[vregs[v][k].index].to

\* -------------------------------------------------- claims on the driver
\* C25: fixed reservations are never evicted: every entry of a PReg map
\* with an invalid live-range index is in the map, with the same key,
\* after every step (an allocation, an eviction, a split, a whole
\* process_bundle), and so in every later state.
C25_ReservationsKept ==
    [][\A p \in PRegs : \A i \in 1..Len(pregs[p]) :
          pregs[p][i].lr = Invalid =>
             \E j \in 1..Len(pregs'[p]) : pregs'[p][j] = pregs[p][i]]_vars

\* A bundle was evicted while every PReg holds a fixed reservation, and
\* no PReg map holds an entry over its ranges any more.
C25_Witness ==
    /\ last.op = "evict"
    /\ bundles[last.bundle].allocation = Invalid
    /\ \A p \in PRegs :
          /\ \E i \in 1..Len(pregs[p]) : pregs[p][i].lr = Invalid
          /\ \A i \in 1..Len(pregs[p]) : \A k \in 1..Len(bundles[last.bundle].ranges) :
                ~Overlap(pregs[p][i], bundles[last.bundle].ranges[k])

\* The decision path of process_bundle calls split_and_requeue_bundle in
\* this step (the call stops a debug build when an assertion of the
\* split fails).
DecisionSplit ==
    /\ last'.op = "loop"
    /\ \/ last'.step = "split"
       \/ /\ last'.step = "panic"
          /\ last'.halt # ""
          /\ last'.halt = split_assert(Env, last'.bundle, last'.split_at)

\* C27: every split point the decision path of process_bundle passes to
\* split_and_requeue_bundle is at or after the bundle's start and before
\* its end, the point max(best_split_point, bundle_start) and the point
\* passed alike; a point that hoisting changed is the entry of a block
\* after the block of the bundle's start and not after the block of the
\* unhoisted point.
C27_DecisionPointInside ==
    [][DecisionSplit =>
        LET b == last'.bundle
            bundle_start == bundles[b].ranges[1].from
            bundle_end == Last(bundles[b].ranges).to
            unhoisted == Max(last'.probe.split_point, bundle_start)
            split_at == last'.split_at
        IN /\ bundle_start <= unhoisted /\ unhoisted < bundle_end
           /\ bundle_start <= split_at /\ split_at < bundle_end
           /\ split_at # unhoisted =>
                \E block \in (insn_block(inst(bundle_start)) + 1)
                                ..insn_block(inst(unhoisted)) :
                   split_at = block_entry(block)
    ]_vars

\* The decision path has split a bundle at a point hoisted to the entry
\* of a loop's first block, before the conflict point.
C27_Witness ==
    /\ last.op = "loop"
    /\ last.step = "split"
    /\ last.split_at < last.probe.split_point
    /\ \E block \in 2..NumBlocks :
          /\ last.split_at = block_entry(block)
          /\ approx_loop_depth[block] > approx_loop_depth[1]

\* The probe round when every PReg is probed with max_allowable_cost = None.
RECURSIVE probe_without_limit(_, _, _, _, _)
probe_without_limit(e, bundle, regs, i, t) ==
    IF i > Len(regs) THEN t
    ELSE
      LET preg == regs[i]
          limit == None
      IN Let(try_result(e, bundle, preg, limit), LAMBDA r :
         CASE r.tag = "Allocated" ->
                [t EXCEPT !.allocated = preg, !.limit = limit]
           [] r.tag = "Conflict" ->
                LET conflict_cost == maximum_spill_weight_in_bundle_set(e, r.bundles)
                    t1 == IF t.evict_cost = None \/ conflict_cost < t.evict_cost
                          THEN [t EXCEPT !.evict_cost = conflict_cost,
                                         !.evict_set = r.bundles]
                          ELSE t
                    cost == conflict_cost + move_cost_at(e, r.point)
                    t2 == IF t1.split_cost = None \/ cost < t1.split_cost
                          THEN [t1 EXCEPT !.split_cost = cost, !.split_point = r.point,
                                          !.split_reg = preg]
                          ELSE t1
                IN Let(t2, LAMBDA t3 : probe_without_limit(e, bundle, regs, i + 1, t3))
           [] r.tag = "ConflictWithFixed" ->
                LET cost == r.cost + move_cost_at(e, r.point)
                    t2 == IF t.split_cost = None \/ cost < t.split_cost
                          THEN [t EXCEPT !.split_cost = cost, !.split_point = r.point,
                                         !.split_reg = preg]
                          ELSE t
                IN Let(t2, LAMBDA t3 : probe_without_limit(e, bundle, regs, i + 1, t3))
           [] OTHER -> probe_without_limit(e, bundle, regs, i + 1, t))

\* The PRegs the probe round of the current bundle goes through.
ProbedRegs ==
    RegTraversalIter(cur.hint_reg, scan_offset_of(Env, cur.bundle), fixed_preg_of(cur.req))

\* C26: the early abort does not change the driver's choice: the trackers
\* at the end of every probe round (best evict cost and set, best split
\* cost, point and register, and the PReg allocated) are those of a round
\* that probes every PReg without a cost limit.
C26_EarlyAbortSameChoice ==
    [][last'.op = "loop" =>
        LET t == probe_without_limit(Env, cur.bundle, ProbedRegs, 1, NoProbe)
        IN /\ last'.probe.evict_cost = t.evict_cost
           /\ last'.probe.evict_set = t.evict_set
           /\ last'.probe.split_cost = t.split_cost
           /\ last'.probe.split_point = t.split_point
           /\ last'.probe.split_reg = t.split_reg
           /\ last'.probe.allocated = t.allocated
    ]_vars

\* A probe round that chose to evict has met a PReg whose probe was
\* aborted on the cost limit of the PRegs before it.
C26_Witness ==
    /\ last.op = "loop"
    /\ last.step = "evict"
    /\ cur.bundle = last.bundle
    /\ \E i \in 1..Len(ProbedRegs) :
          LET t == probe(Env, cur.bundle, SubSeq(ProbedRegs, 1, i - 1), 1, NoProbe)
          IN /\ scan_limit_cost(t) # None
             /\ try_result(Env, cur.bundle, ProbedRegs[i], scan_limit_cost(t)).tag
                  = "ConflictHighCost"

\* ------------------------------------------------------ claims on stackmaps
\* The premise of C23 for a VReg: its range list is sorted and disjoint
\* and every range of it is allocated to a spill slot.
SortedInSlots(v) ==
    /\ SortedDisjoint(vregs[v])
    /\ \A i \in 1..Len(vregs[v]) : range_allocation[vregs[v][i].index].kind = "stack"

\* How many (safepoint, range) pairs of a VReg, the range covering the
\* Before point of the safepoint, make the tuple x.
CoveringPairs(v, x) ==
    Cardinality({c \in safepoints_per_vreg[v] \X (1..Len(vregs[v])) :
                   /\ vregs[v][c[2]].from <= before(c[1])
                   /\ before(c[1]) < vregs[v][c[2]].to
                   /\ x = <<before(c[1]), range_allocation[vregs[v][c[2]].index].index>>})

RECURSIVE CoveringPairsOfAll(_, _)
CoveringPairsOfAll(k, x) ==
    IF k > Len(reftype_vregs) THEN 0
    ELSE CoveringPairs(reftype_vregs[k], x) + CoveringPairsOfAll(k + 1, x)

SlotTuples == {before(i) : i \in Insts} \X (1..2)

\* C23: for a reference-typed VReg whose ranges are sorted, disjoint and
\* all in spill slots, the walk over its ranges emits the tuple
\* (before(s), slot of r) once for each safepoint s and range r with
\* r.from <= before(s) < r.to, and nothing else; when this holds of every
\* reference-typed VReg, compute_stackmaps returns and safepoint_slots
\* holds exactly these tuples.
C23_OnePairPerCoveredSafepoint ==
    [][last'.op = "compute_stackmaps" =>
        /\ \A k \in 1..Len(reftype_vregs) :
              LET v == reftype_vregs[k]
                  r == vreg_safepoints(vregs[v], 1, sorted_safepoints(safepoints_per_vreg[v]),
                                       1, range_allocation, <<>>)
              IN SortedInSlots(v) =>
                   /\ r.halt = ""
                   /\ \A i \in 1..Len(r.out) : r.out[i] \in SlotTuples
                   /\ \A x \in SlotTuples :
                         Occurrences(r.out, x) = CoveringPairs(v, x)
        /\ (\A k \in 1..Len(reftype_vregs) : SortedInSlots(reftype_vregs[k])) =>
              /\ last'.step = "returned"
              /\ \A i \in 1..Len(safepoint_slots') : safepoint_slots'[i] \in SlotTuples
              /\ \A x \in SlotTuples :
                    Occurrences(safepoint_slots', x) = CoveringPairsOfAll(1, x)
    ]_vars

\* compute_stackmaps has returned for a reference-typed VReg of two sorted
\* ranges in a spill slot, with a safepoint in each and one in neither.
C23_Witness ==
    /\ last.op = "compute_stackmaps" /\ last.step = "returned"
    /\ reftype_vregs = <<1>>
    /\ Len(vregs[1]) = 2
    /\ SortedInSlots(1)
    /\ safepoints_per_vreg[1] = Insts
    /\ \A i \in 1..2 : \E s \in Insts :
          vregs[1][i].from <= before(s) /\ before(s) < vregs[1][i].to
    /\ Len(safepoint_slots) < NumInsts

\* A range of a reference-typed VReg covers one of its safepoints and is
\* not allocated to a spill slot.
CoveredOutsideSlot ==
    \E k \in 1..Len(reftype_vregs) :
       LET v == reftype_vregs[k]
       IN \E s \in safepoints_per_vreg[v] : \E i \in 1..Len(vregs[v]) :
             /\ vregs[v][i].from <= before(s)
             /\ before(s) < vregs[v][i].to
             /\ range_allocation[vregs[v][i].index].kind # "stack"

\* Every entry of safepoint_slots is the slot of a range of a
\* reference-typed VReg that is allocated to a stack slot.
EntriesAreStackSlots ==
    \A n \in 1..Len(safepoint_slots) :
       \E k \in 1..Len(reftype_vregs) : \E i \in 1..Len(vregs[reftype_vregs[k]]) :
          range_allocation[vregs[reftype_vregs[k]][i].index]
             = StackAlloc(safepoint_slots[n][2])

\* C24 as stated: after compute_stackmaps returns, safepoint_slots is
\* sorted strictly by ProgPoint (no two entries share a ProgPoint) and
\* every entry's slot is a stack slot; a range of a reference-typed VReg
\* that covers a safepoint and is not in a spill slot makes it halt.
C24_StrictlySortedByPoint ==
    last.op = "compute_stackmaps" =>
       /\ last.step = "returned" =>
             /\ \A i, j \in 1..Len(safepoint_slots) :
                   i < j => safepoint_slots[i][1] < safepoint_slots[j][1]
             /\ EntriesAreStackSlots
       /\ CoveredOutsideSlot => last.step = "panic" /\ last.halt = NotInSpillslot

\* C24 (amended): after compute_stackmaps returns, safepoint_slots is
\* sorted ascending by (ProgPoint, slot); entries of different VRegs may
\* share a ProgPoint; every entry's slot is a stack slot.  When the range
\* lists of the reference-typed VRegs are sorted and disjoint, a range
\* that covers a safepoint and is not in a spill slot makes it halt.
C24_SortedByPointAndSlot ==
    last.op = "compute_stackmaps" =>
       /\ last.step = "returned" =>
             /\ \A i, j \in 1..Len(safepoint_slots) :
                   i < j => \/ SlotLess(safepoint_slots[i], safepoint_slots[j])
                            \/ safepoint_slots[i] = safepoint_slots[j]
             /\ EntriesAreStackSlots
       /\ (\A k \in 1..Len(reftype_vregs) : SortedDisjoint(vregs[reftype_vregs[k]]))
             /\ CoveredOutsideSlot
          => last.step = "panic" /\ last.halt = NotInSpillslot

\* compute_stackmaps has returned with two reference-typed VRegs live over
\* one safepoint in different slots: two entries share the ProgPoint.
C24_Witness ==
    /\ last.op = "compute_stackmaps" /\ last.step = "returned"
    /\ Len(reftype_vregs) = 2
    /\ \E i, j \in 1..Len(safepoint_slots) :
          /\ i < j
          /\ safepoint_slots[i][1] = safepoint_slots[j][1]
          /\ safepoint_slots[i][2] < safepoint_slots[j][2]
    /\ \E i \in 1..Len(safepoint_slots) : safepoint_slots[i][1] > safepoint_slots[1][1]

\* ------------------------------------------------- claims on frame and queue
\* C31: try_to_allocate_bundle_to_reg changes state only when it returns
\* Allocated: on Conflict, ConflictWithFixed and ConflictHighCost the
\* bundle's allocation, every PReg map, the queue and all arenas are as
\* they were.
C31_ConflictChangesNothing ==
    [][last'.op = "probe" /\ last'.step # "Allocated" =>
         /\ last'.step \in {"Conflict", "ConflictWithFixed", "ConflictHighCost"}
         /\ bundles' = bundles
         /\ pregs' = pregs
         /\ allocation_queue' = allocation_queue
         /\ ranges' = ranges
         /\ vregs' = vregs
         /\ spillsets' = spillsets
         /\ spilled_bundles' = spilled_bundles]_vars

\* A probe with a cost limit was aborted on a PReg that holds entries,
\* with a bundle waiting in the queue.
C31_Witness ==
    /\ last.op = "probe"
    /\ last.step = "ConflictHighCost"
    /\ last.probe.limit # None
    /\ pregs[cur.hint_reg] # <<>>
    /\ allocation_queue # <<>>
    /\ bundles[cur.bundle].allocation = Invalid

\* The places (bundle, list position) whose entry names range r.
HoldersOf(r) ==
    {h \in Bundles \X (1..Len(ranges)) :
        /\ h[2] <= Len(bundles[h[1]].ranges)
        /\ bundles[h[1]].ranges[h[2]].index = r}

\* C32: in every state the range-to-bundle back-index is consistent:
\* every live range is named by one entry of the range list of one
\* bundle, ranges[r].bundle is that bundle, and the entry's cached range
\* is the range of ranges[r].
C32_BackIndexConsistent ==
    \A r \in 1..Len(ranges) :
       /\ Cardinality(HoldersOf(r)) = 1
       /\ \A h \in HoldersOf(r) :
             /\ ranges[r].bundle = h[1]
             /\ bundles[h[1]].ranges[h[2]].from = ranges[r].from
             /\ bundles[h[1]].ranges[h[2]].to = ranges[r].to

\* ------------------------------------------------- claims on minimal bundles
\* C33: the three weight constants being strictly ordered, no bundle whose
\* cached properties are minimal and fixed is in a conflict set chosen for
\* eviction, and a conflict set chosen by a bundle that is not minimal
\* holds no minimal bundle.
C33_MinimalKeepsItsReg ==
    /\ MINIMAL_FIXED_BUNDLE_SPILL_WEIGHT > MINIMAL_BUNDLE_SPILL_WEIGHT
    /\ MINIMAL_BUNDLE_SPILL_WEIGHT > BUNDLE_MAX_NORMAL_SPILL_WEIGHT
    /\ pc = "evict" =>
          \A k \in 1..Len(evict_list) :
             /\ ~(bundles[evict_list[k]].minimal /\ bundles[evict_list[k]].fixed)
             /\ bundles[evict_list[k]].minimal => bundles[cur.bundle].minimal

\* A minimal bundle is about to be evicted from the PReg it holds.
C33_Witness ==
    /\ pc = "evict"
    /\ evict_list # <<>>
    /\ bundles[evict_list[1]].minimal
    /\ bundles[evict_list[1]].allocation # Invalid
    /\ bundles[cur.bundle].minimal
    /\ bundles[cur.bundle].fixed

\* C34: a minimal bundle of requirement Register that fails to allocate
\* and does not evict never reaches the panic "Could not allocate minimal
\* bundle": the minimal occupants and fixed reservations over its range
\* are at least as many as the PRegs of its class, and process_bundle
\* returns Err(TooManyLiveRegs).
C34_RegisterNeverPanics ==
    (MinimalFailed /\ last.req.kind = "Register") =>
       /\ last.halt # "Could not allocate minimal bundle"
       /\ last.step = "error"
       /\ pc = "err"
       /\ Cardinality(UNION {LiveOccupants(bundles[last.bundle].ranges[k]) :
                               k \in 1..Len(bundles[last.bundle].ranges)}) >= NumPRegs

\* ---------------------------------------------------- claims on the queue
\* C35: in every state no bundle is in the allocation queue twice, every
\* queued bundle has no allocation and a range list that is not empty,
\* and a bundle that process_bundle has just been started on has no
\* allocation.
C35_QueueWellFormed ==
    /\ \A i, j \in 1..Len(allocation_queue) :
          i # j => allocation_queue[i].bundle # allocation_queue[j].bundle
    /\ \A i \in 1..Len(allocation_queue) :
          /\ allocation_queue[i].bundle \in Bundles
          /\ bundles[allocation_queue[i].bundle].allocation = Invalid
          /\ bundles[allocation_queue[i].bundle].ranges # <<>>
    /\ (last.op = "process_bundle" /\ last.step = "loop") =>
          bundles[last.bundle].allocation = Invalid

\* An evicted bundle is back in the queue next to another bundle, and the
\* bundle that evicted it is being tried again.
C35_Witness ==
    /\ last.op = "evict"
    /\ Len(allocation_queue) >= 2
    /\ \E i \in 1..Len(allocation_queue) : allocation_queue[i].bundle = last.bundle
    /\ pc = "loop"
====
